---------------------------- MODULE Spec2Model ----------------------------
(***************************************************************************)
(* zero2prod: newsletter subscription and fan-out service.                 *)
(*                                                                         *)
(* The state is the Postgres database (subscriptions, idempotency,         *)
(* newsletter_issues, issue_delivery_queue), the requests the email        *)
(* provider has received, and the position of every in-flight publish      *)
(* request, idempotency-API caller and delivery worker.                    *)
(*                                                                         *)
(* Three specifications share the state:                                   *)
(*   SpecPublish  POST /admin/newsletters as routes/admin/newsletters.rs   *)
(*                handles it;                                              *)
(*   SpecMemo     idempotency/persistence.rs (try_processing,              *)
(*                save_response, get_saved_response) under concurrent      *)
(*                callers, each holding the transaction try_processing     *)
(*                returned;                                                *)
(*   SpecWorker   issue_delivery_worker.rs over a queue of delivery tasks. *)
(***************************************************************************)
EXTENDS Integers, Sequences, FiniteSets, Bags, TLC

\* ------------------------------------------------------------------ bounds
\* Concurrent publish requests (SpecPublish).
MaxRequests == 2
\* Concurrent callers of the idempotency API (SpecMemo).
MaxCallers == 3
\* Delivery workers running at once (SpecWorker).
MaxWorkers == 2
\* Database errors and crashes injected (SpecWorker, SpecSubscribe).
MaxFaults == 1
\* Subscribe requests and confirm requests (SpecSubscribe).
MaxSubscribes == 2
MaxConfirms == 2
\* Calls of EmailClient::send_email (SpecEmailClient).
MaxCalls == 2
\* Requests to /login and to the admin routes (SpecAdmin).
MaxAdminRequests == 3
\* Longest string handed to SubscriptionToken::parse (SpecToken).
MaxTokenLength == 26
\* Longest name, before whitespace is put around it, handed to Name::parse (SpecName).
MaxNameLength == 257

Requests == 1..MaxRequests
Callers == 1..MaxCallers
Workers == 1..MaxWorkers
SubscribeRequests == 1..MaxSubscribes
ConfirmRequests == 1..MaxConfirms
Calls == 1..MaxCalls
AdminRequests == 1..MaxAdminRequests

\* ------------------------------------------------------------------ values
Users == {"u1", "u2"}
Keys == {"k1", "k2"}
Issues == {"i1", "i2"}
\* Email strings stored in the database; the last one fails Email::parse.
ValidEmails == {"a@x.io", "b@x.io"}
StoredEmails == ValidEmails \cup {"not-an-email"}

VARIABLES
    subscriptions,          \* table subscriptions: rows [id, name, email, status]
    idempotency,            \* table idempotency: rows, committed or in a transaction
    newsletter_issues,      \* table newsletter_issues: issue ids
    issue_delivery_queue,   \* table issue_delivery_queue: rows [newsletter_issue_id, subscriber_email]
    provider,               \* bag of the POST /email requests the provider received
    rpc, ruser, rkey,       \* publish request: position, session user id, form idempotency_key
    rtodo, rresp, rprior,   \* publish request: subscribers left in the loop, result, earlier successes
    cpc, cuser, ckey,       \* idempotency caller: position, user id, key
    cout, first_saved,      \* idempotency caller: response obtained; first response committed per (user, key)
    wpc, wtask, wsent,      \* worker: position, dequeued (locked) task, sent in this iteration
    woutcome,               \* worker: result of the last try_execute_task
    enqueued, aborted,      \* tasks ever enqueued; bag of tasks whose iteration was aborted after the send
    faults,                 \* database errors and crashes injected so far
    subscription_tokens,    \* table subscription_tokens: rows [subscription_token, subscriber_id]
    spc, sname, semail,     \* subscribe request: position, form name, form email
    sfound, swrites,        \* subscribe request: existing subscriber read; rows written in its transaction
    stoken, sout,           \* subscribe request: token for the email; result
    qpc, qtoken, qid, qout, \* confirm request: position, query token, subscriber id found, result
    qprior,                 \* confirm request: earlier requests that confirmed with the same token
    epc, eposts,            \* send_email call: position, POST requests issued
    eresp, eresult,         \* send_email call: status the provider answered (0: none in time); result
    users, session,         \* table users: rows [user_id, username, password_hash]; session store
    apc, akind, aform,      \* login or admin request: position, route, form
    auser, aseen, aout,     \* the same: user id it obtained, stored hash it verified against, result
    pin, pout               \* a parse call: input, result

dbVars == <<subscriptions, idempotency, newsletter_issues, issue_delivery_queue>>
publishVars == <<rpc, ruser, rkey, rtodo, rresp, rprior>>
memoVars == <<cpc, cuser, ckey, cout, first_saved>>
workerVars == <<wpc, wtask, wsent, woutcome, enqueued, aborted, faults>>
subscribeVars ==
    <<subscription_tokens, spc, sname, semail, sfound, swrites, stoken, sout, qpc, qtoken, qid, qout,
      qprior>>
emailVars == <<epc, eposts, eresp, eresult>>
adminVars == <<users, session, apc, akind, aform, auser, aseen, aout>>
parseVars == <<pin, pout>>
vars ==
    <<dbVars, provider, publishVars, memoVars, workerVars, subscribeVars, emailVars, adminVars,
      parseVars>>

\* A nullable column: << >> is NULL, <<v>> holds v.
Null == << >>
Some(v) == <<v>>

\* ------------------------------------------------------------------ domain
\* Email::parse: Ok for a syntactically valid email, ParseEmailError otherwise.
EmailParse(s) ==
    IF s \in ValidEmails THEN [ok |-> TRUE, email |-> s] ELSE [ok |-> FALSE, email |-> ""]

\* SubscriptionStatus and its snake_case serialisation.
PendingConfirmation == "pending_confirmation"
Confirmed == "confirmed"

\* A name is the sequence of its graphemes, each of them one character here.
LeMao == <<"L", "e", " ", "M", "a", "o">>
LeGuin == <<"L", "e", " ", "G", "u", "i", "n">>
Blank == <<" ">>
\* The (name, email) pairs submitted to POST /subscribe: two names for one
\* email, a blank name, and an invalid email.
SubscribeForms ==
    {<<LeMao, "a@x.io">>, <<LeGuin, "a@x.io">>, <<Blank, "a@x.io">>, <<LeMao, "not-an-email">>}

MAX_SUBSCRIBER_NAME_LENGTH == 256
Whitespace == {" ", "\t"}
forbidden_characters == {"/", "(", ")", "\"", "<", ">", "\\", "{", "}"}

\* str::trim: the string without its leading and trailing whitespace.
Trim(s) ==
    LET kept == {i \in 1..Len(s) : s[i] \notin Whitespace}
    IN  IF kept = {}
        THEN << >>
        ELSE SubSeq(s, CHOOSE i \in kept : \A j \in kept : i <= j,
                       CHOOSE i \in kept : \A j \in kept : j <= i)

\* Name::parse: Err for a name that is empty once trimmed, for a name of more
\* than MAX_SUBSCRIBER_NAME_LENGTH graphemes and for a name that holds a
\* forbidden character; Ok with the string it was given otherwise.
NameParse(s) ==
    LET is_empty_or_whitespace == Trim(s) = << >>
        is_too_long == Len(s) > MAX_SUBSCRIBER_NAME_LENGTH
        contains_forbidden_characters == \E i \in 1..Len(s) : s[i] \in forbidden_characters
    IN  IF is_empty_or_whitespace \/ is_too_long \/ contains_forbidden_characters
        THEN [ok |-> FALSE, name |-> << >>]
        ELSE [ok |-> TRUE, name |-> s]

\* SubscriptionToken: a token is the sequence of its characters.
TOKEN_LENGTH == 25
\* The characters rand's Alphanumeric distribution draws from (a-z, A-Z, 0-9)
\* and the characters char::is_alphanumeric accepts, which are those and the
\* letters and digits of every other script; "e_acute" is the one character
\* U+00E9 and "arabic_3" the one character U+0663.
AsciiAlphanumeric == {"a", "b", "c", "Z", "7"}
Alphanumeric == AsciiAlphanumeric \cup {"e_acute", "arabic_3"}
Token(char) == [i \in 1..TOKEN_LENGTH |-> char]

\* SubscriptionToken::parse without the check of the characters.
SubscriptionTokenParseLengthOnly(s) ==
    IF Len(s) # TOKEN_LENGTH
    THEN [ok |-> FALSE, error |-> "InvalidLength"]
    ELSE [ok |-> TRUE, error |-> ""]

\* SubscriptionToken::parse: first every character must be alphanumeric, then
\* the length must be TOKEN_LENGTH.
SubscriptionTokenParse(s) ==
    IF \E i \in 1..Len(s) : s[i] \notin Alphanumeric
    THEN [ok |-> FALSE, error |-> "NotAlphanumeric"]
    ELSE IF Len(s) # TOKEN_LENGTH
    THEN [ok |-> FALSE, error |-> "InvalidLength"]
    ELSE [ok |-> TRUE, error |-> ""]

\* SubscriptionToken::generate: 25 random alphanumeric characters; these are
\* the values it yields here, in the order in which new values appear.
GeneratedTokenOrder == <<Token("a"), Token("b")>>
GeneratedTokens == {GeneratedTokenOrder[i] : i \in 1..Len(GeneratedTokenOrder)}

\* What generate can yield when stored holds the tokens in use: a value equal
\* to a stored one, or a new value (the next one of the order, the values
\* being interchangeable).
Generate(stored) ==
    LET unused == {i \in 1..Len(GeneratedTokenOrder) : GeneratedTokenOrder[i] \notin stored}
    IN  (GeneratedTokens \cap stored) \cup
            {GeneratedTokenOrder[i] : i \in {j \in unused : \A k \in unused : j <= k}}

\* The subscription_token values a confirm request may carry: the generated
\* ones, a well-formed one that was never stored, a truncated one and one with
\* a character that is not alphanumeric.
QueryTokens ==
    GeneratedTokens \cup {Token("Z"), SubSeq(Token("a"), 1, TOKEN_LENGTH - 1),
                          [Token("a") EXCEPT ![1] = "-"]}

\* ------------------------------------------------------------------ responses
\* Redirect::to("/admin/newsletters").into_response()
RedirectToAdminNewsletters ==
    [status |-> 303, headers |-> << <<"location", "/admin/newsletters">> >>, body |-> ""]

\* A redirect to another page than /login.
RedirectToRoot ==
    [status |-> 303, headers |-> << <<"location", "/">> >>, body |-> ""]

\* Redirect::to("/login").into_response()
RedirectToLogin ==
    [status |-> 303, headers |-> << <<"location", "/login">> >>, body |-> ""]

\* InternalServerError::into_response
InternalServerError ==
    [status |-> 500, headers |-> << >>, body |-> "Something went wrong"]

\* Responses a caller may hand to save_response.
Responses ==
    { RedirectToAdminNewsletters,
      InternalServerError,
      [status |-> 200, headers |-> << <<"x-a", "1">>, <<"x-a", "2">> >>, body |-> "ok"] }

\* parts.status.as_u16() as i16: the low 16 bits, read as a signed number.
StatusAsI16(status) ==
    LET low == status % 65536 IN IF low >= 32768 THEN low - 65536 ELSE low

\* StatusCode::from_u16(code.try_into()?)?: i16 -> u16 fails below 0, from_u16
\* accepts 100..=999.
StatusFromI16(code) ==
    IF code < 0 \/ code < 100 \/ code > 999
    THEN [ok |-> FALSE, status |-> 0]
    ELSE [ok |-> TRUE, status |-> code]

\* The Vec<HeaderPairRecord> save_response builds from parts.headers.
HeaderPairRecords(headers) ==
    [i \in 1..Len(headers) |-> [name |-> headers[i][1], value |-> headers[i][2]]]

\* builder.header(name, value) for every stored pair, in order.
HeadersFromRecords(records) ==
    [i \in 1..Len(records) |-> <<records[i].name, records[i].value>>]


\* ------------------------------------------------------------------ idempotency table
\* The table's primary key (user_id, idempotency_key).
IdempotencyPrimaryKey(row) == <<row.user_id, row.idempotency_key>>

\* Rows a statement sees: committed ones, and those of its own transaction
\* (xid = 0 is a statement run on the pool, outside any transaction).
Visible(rows, xid) == {row \in rows : row.committed \/ (xid # 0 /\ row.xmin = xid)}

\* An INSERT that never waits for the open transaction of another caller.
InsertWaitsNever(rows, xid, user_id, idempotency_key) == FALSE

\* An INSERT waits while another open transaction holds an uncommitted row
\* with the same primary key.
InsertWaits(rows, xid, user_id, idempotency_key) ==
    \E row \in rows :
        /\ ~row.committed
        /\ row.xmin # xid
        /\ IdempotencyPrimaryKey(row) = <<user_id, idempotency_key>>

\* get_saved_response with the user_id condition missing from the WHERE clause.
GetSavedResponseAnyUser(rows, idempotency_key, user_id) ==
    LET found == {row \in Visible(rows, 0) : row.idempotency_key = idempotency_key}
        decode(row) ==
            IF row.response_status_code = Null
            THEN [kind |-> "err", response |-> Null]
            ELSE [kind |-> "some",
                  response |-> Some([status |-> StatusFromI16(row.response_status_code[1]).status,
                                     headers |-> HeadersFromRecords(row.response_headers[1]),
                                     body |-> row.response_body[1]])]
    IN  IF found = {}
        THEN {[kind |-> "none", response |-> Null]}
        ELSE {decode(row) : row \in found}

\* get_saved_response: the SELECT by (user_id, idempotency_key) on the pool and
\* the rebuilding of the Response. The set of results fetch_optional can give:
\* none without a row, an error for a row with NULL response columns or a
\* status code that does not convert, the response otherwise.
GetSavedResponse(rows, idempotency_key, user_id) ==
    LET found == {row \in Visible(rows, 0) :
                     row.user_id = user_id /\ row.idempotency_key = idempotency_key}
        decode(row) ==
            IF \/ row.response_status_code = Null
               \/ row.response_headers = Null
               \/ row.response_body = Null
            THEN [kind |-> "err", response |-> Null]
            ELSE LET status == StatusFromI16(row.response_status_code[1]) IN
                 IF ~status.ok
                 THEN [kind |-> "err", response |-> Null]
                 ELSE [kind |-> "some",
                       response |-> Some([status |-> status.status,
                                          headers |-> HeadersFromRecords(row.response_headers[1]),
                                          body |-> row.response_body[1]])]
    IN  IF found = {}
        THEN {[kind |-> "none", response |-> Null]}
        ELSE {decode(row) : row \in found}

\* The INSERT with no conflict clause on a table without the primary key.
InsertIdempotencyRowNoConflict(rows, xid, user_id, idempotency_key) ==
    rows \cup {[user_id |-> user_id,
                idempotency_key |-> idempotency_key,
                response_status_code |-> Null,
                response_headers |-> Null,
                response_body |-> Null,
                xmin |-> xid,
                committed |-> FALSE]}

\* The INSERT executed on the pool instead of the transaction: it commits at
\* once.
InsertIdempotencyRowOnPool(rows, xid, user_id, idempotency_key) ==
    IF \E row \in Visible(rows, xid) :
           IdempotencyPrimaryKey(row) = <<user_id, idempotency_key>>
    THEN rows
    ELSE rows \cup {[user_id |-> user_id,
                     idempotency_key |-> idempotency_key,
                     response_status_code |-> Null,
                     response_headers |-> Null,
                     response_body |-> Null,
                     xmin |-> xid,
                     committed |-> TRUE]}

\* The INSERT of try_processing: (user_id, idempotency_key, now()) with the
\* response columns NULL, ON CONFLICT DO NOTHING.
InsertIdempotencyRow(rows, xid, user_id, idempotency_key) ==
    IF \E row \in Visible(rows, xid) :
           IdempotencyPrimaryKey(row) = <<user_id, idempotency_key>>
    THEN rows
    ELSE rows \cup {[user_id |-> user_id,
                     idempotency_key |-> idempotency_key,
                     response_status_code |-> Null,
                     response_headers |-> Null,
                     response_body |-> Null,
                     xmin |-> xid,
                     committed |-> FALSE]}

\* The UPDATE with the idempotency_key condition missing from the WHERE clause.
UpdateResponseAnyKey(rows, xid, idempotency_key, user_id, response) ==
    {IF row \in Visible(rows, xid) /\ row.user_id = user_id
     THEN [row EXCEPT !.response_status_code = Some(StatusAsI16(response.status)),
                      !.response_headers = Some(HeaderPairRecords(response.headers)),
                      !.response_body = Some(response.body)]
     ELSE row : row \in rows}

\* The UPDATE of save_response with a WHERE clause that matches no row: the
\* response columns stay NULL.
UpdateResponseNoRow(rows, xid, idempotency_key, user_id, response) == rows

\* The UPDATE of save_response: sets the three response columns of the rows
\* WHERE user_id = $1 AND idempotency_key = $2, run on transaction xid.
UpdateResponse(rows, xid, idempotency_key, user_id, response) ==
    LET hit(row) == /\ row \in Visible(rows, xid)
                    /\ row.user_id = user_id
                    /\ row.idempotency_key = idempotency_key
    IN  {IF hit(row)
         THEN [row EXCEPT !.response_status_code = Some(StatusAsI16(response.status)),
                          !.response_headers = Some(HeaderPairRecords(response.headers)),
                          !.response_body = Some(response.body)]
         ELSE row : row \in rows}

\* transaction.commit(): the transaction's rows become visible to everyone.
Commit(rows, xid) ==
    {IF row.xmin = xid THEN [row EXCEPT !.committed = TRUE] ELSE row : row \in rows}

\* A Transaction dropped without commit rolls back: its rows are gone.
Rollback(rows, xid) == {row \in rows : row.committed \/ row.xmin # xid}

\* ------------------------------------------------------------------ idempotency API callers
\* Transaction ids of the callers are kept apart from those of publish requests.
CallerXid(c) == MaxRequests + c

\* try_processing(pool, idempotency_key, user_id).
TryProcessing(c, user_id, idempotency_key) ==
    /\ cpc[c] = "idle"
    /\ ~InsertWaits(idempotency, CallerXid(c), user_id, idempotency_key)
    /\ cuser' = [cuser EXCEPT ![c] = user_id]
    /\ ckey' = [ckey EXCEPT ![c] = idempotency_key]
    /\ LET rows == InsertIdempotencyRow(idempotency, CallerXid(c), user_id, idempotency_key)
           num_inserted_rows == Cardinality(rows) - Cardinality(idempotency)
       IN  IF num_inserted_rows > 0
           THEN /\ idempotency' = rows
                /\ cpc' = [cpc EXCEPT ![c] = "StartProcessing"]
                /\ cout' = cout
           ELSE \E saved \in GetSavedResponse(idempotency, idempotency_key, user_id) :
                /\ idempotency' = Rollback(idempotency, CallerXid(c))
                /\ IF saved.kind = "some"
                   THEN /\ cpc' = [cpc EXCEPT ![c] = "ReturnSavedResponse"]
                        /\ cout' = [cout EXCEPT ![c] = saved.response]
                   ELSE /\ cpc' = [cpc EXCEPT ![c] = "Err"]
                        /\ cout' = cout
    /\ UNCHANGED <<first_saved, subscriptions, newsletter_issues, issue_delivery_queue,
                   provider, publishVars, workerVars, subscribeVars, emailVars, adminVars, parseVars>>

\* save_response(transaction, idempotency_key, user_id, response), called with
\* the transaction and the (user id, key) of the caller's try_processing.
SaveResponse(c, response) ==
    /\ cpc[c] = "StartProcessing"
    /\ idempotency' =
          Commit(UpdateResponse(idempotency, CallerXid(c), ckey[c], cuser[c], response),
                 CallerXid(c))
    /\ cpc' = [cpc EXCEPT ![c] = "Saved"]
    /\ cout' = [cout EXCEPT ![c] = Some(response)]
    /\ first_saved' =
          IF first_saved[<<cuser[c], ckey[c]>>] = Null
          THEN [first_saved EXCEPT ![<<cuser[c], ckey[c]>>] = Some(response)]
          ELSE first_saved
    /\ UNCHANGED <<cuser, ckey, subscriptions, newsletter_issues, issue_delivery_queue,
                   provider, publishVars, workerVars, subscribeVars, emailVars, adminVars, parseVars>>

\* The caller fails between try_processing and save_response (an error
\* propagated with ?, or the request cancelled): the transaction is dropped.
DropTransaction(c) ==
    /\ cpc[c] = "StartProcessing"
    /\ idempotency' = Rollback(idempotency, CallerXid(c))
    /\ cpc' = [cpc EXCEPT ![c] = "Dropped"]
    /\ UNCHANGED <<cuser, ckey, cout, first_saved, subscriptions, newsletter_issues,
                   issue_delivery_queue, provider, publishVars, workerVars, subscribeVars,
                   emailVars, adminVars, parseVars>>

\* The caller of try_processing leaves StartProcessing: it calls
\* save_response, or it returns an error and its transaction is dropped.
HolderEnds(c) ==
    \/ \E response \in Responses : SaveResponse(c, response)
    \/ DropTransaction(c)

InitDatabaseEmpty ==
    /\ subscriptions = {}
    /\ subscription_tokens = {}
    /\ idempotency = {}
    /\ newsletter_issues = {}
    /\ issue_delivery_queue = {}

InitPublishIdle ==
    /\ rpc = [r \in Requests |-> "idle"]
    /\ ruser = [r \in Requests |-> "u1"]
    /\ rkey = [r \in Requests |-> "k1"]
    /\ rtodo = [r \in Requests |-> {}]
    /\ rresp = [r \in Requests |-> Null]
    /\ rprior = [r \in Requests |-> {}]

InitMemoIdle ==
    /\ cpc = [c \in Callers |-> "idle"]
    /\ cuser = [c \in Callers |-> "u1"]
    /\ ckey = [c \in Callers |-> "k1"]
    /\ cout = [c \in Callers |-> Null]
    /\ first_saved = [p \in Users \X Keys |-> Null]

InitSubscribeIdle ==
    /\ spc = [s \in SubscribeRequests |-> "idle"]
    /\ sname = [s \in SubscribeRequests |-> LeMao]
    /\ semail = [s \in SubscribeRequests |-> "a@x.io"]
    /\ sfound = [s \in SubscribeRequests |-> Null]
    /\ swrites = [s \in SubscribeRequests |-> Null]
    /\ stoken = [s \in SubscribeRequests |-> Null]
    /\ sout = [s \in SubscribeRequests |-> "none"]
    /\ qpc = [q \in ConfirmRequests |-> "idle"]
    /\ qtoken = [q \in ConfirmRequests |-> Token("a")]
    /\ qid = [q \in ConfirmRequests |-> Null]
    /\ qout = [q \in ConfirmRequests |-> "none"]
    /\ qprior = [q \in ConfirmRequests |-> {}]

InitWorkerIdle ==
    /\ wpc = [w \in Workers |-> "idle"]
    /\ wtask = [w \in Workers |-> Null]
    /\ wsent = [w \in Workers |-> FALSE]
    /\ woutcome = [w \in Workers |-> "none"]
    /\ aborted = EmptyBag
    /\ faults = 0

InitEmailIdle ==
    /\ epc = [c \in Calls |-> "idle"]
    /\ eposts = [c \in Calls |-> 0]
    /\ eresp = [c \in Calls |-> 0]
    /\ eresult = [c \in Calls |-> "none"]

InitAdminIdle ==
    /\ users = {}
    /\ session = Null
    /\ apc = [r \in AdminRequests |-> "idle"]
    /\ akind = [r \in AdminRequests |-> "none"]
    /\ aform = [r \in AdminRequests |-> Null]
    /\ auser = [r \in AdminRequests |-> Null]
    /\ aseen = [r \in AdminRequests |-> Null]
    /\ aout = [r \in AdminRequests |-> Null]

InitParseIdle ==
    /\ pin = Null
    /\ pout = Null

InitMemo ==
    /\ InitDatabaseEmpty
    /\ provider = EmptyBag
    /\ enqueued = {}
    /\ InitPublishIdle
    /\ InitMemoIdle
    /\ InitWorkerIdle
    /\ InitSubscribeIdle
    /\ InitEmailIdle
    /\ InitAdminIdle
    /\ InitParseIdle

NextMemo ==
    \/ \E c \in Callers, user_id \in Users, idempotency_key \in Keys :
          TryProcessing(c, user_id, idempotency_key)
    \/ \E c \in Callers, response \in Responses : SaveResponse(c, response)
    \/ \E c \in Callers : DropTransaction(c)

SpecMemo == InitMemo /\ [][NextMemo]_vars


\* ------------------------------------------------------------------ email provider
\* One POST /email received by the provider: who sent it (a publish request
\* or a worker), for which request or issue, to whom, and whether the
\* provider answered 2xx (send_email returned Ok) or not (SendEmailError).
ProviderRequest(by, req, issue, to, ok) ==
    [by |-> by, req |-> req, issue |-> issue, to |-> to, ok |-> ok]

\* The number of requests the provider received among the kinds in hits.
CountRequests(hits) ==
    BagCardinality([m \in hits \cap DOMAIN provider |-> provider[m]])

\* ------------------------------------------------------------------ POST /admin/newsletters
\* The SELECT of get_confirmed_subscribers without its WHERE clause.
GetSubscribersOfAnyStatus(rows) == {row.email : row \in rows}

\* get_confirmed_subscribers: SELECT email FROM subscriptions WHERE status =
\* 'confirmed', each row then parsed with Email::parse.
GetConfirmedSubscribers(rows) == {row.email : row \in {x \in rows : x.status = Confirmed}}

\* The request reaches the handler: the middleware supplied user_id, the form
\* idempotency_key.
PublishReceive(r, user_id, idempotency_key) ==
    /\ rpc[r] = "idle"
    /\ rpc' = [rpc EXCEPT ![r] = "get_saved_response"]
    /\ ruser' = [ruser EXCEPT ![r] = user_id]
    /\ rkey' = [rkey EXCEPT ![r] = idempotency_key]
    /\ rprior' = [rprior EXCEPT ![r] =
                     {q \in Requests : /\ rpc[q] = "published"
                                       /\ ruser[q] = user_id
                                       /\ rkey[q] = idempotency_key}]
    /\ UNCHANGED <<rtodo, rresp, dbVars, provider, memoVars, subscribeVars, workerVars,
                   emailVars, adminVars, parseVars>>

\* publish_newsletter_with_idempotent_handling, lines 65-71: return early if
\* there is a saved response.
PublishGetSaved(r) ==
    /\ rpc[r] = "get_saved_response"
    /\ \E saved \in GetSavedResponse(idempotency, rkey[r], ruser[r]) :
          CASE saved.kind = "some" ->
                   /\ rpc' = [rpc EXCEPT ![r] = "replayed"]
                   /\ rresp' = [rresp EXCEPT ![r] = saved.response]
            [] saved.kind = "none" ->
                   /\ rpc' = [rpc EXCEPT ![r] = "get_confirmed_subscribers"]
                   /\ rresp' = rresp
            [] OTHER ->
                   /\ rpc' = [rpc EXCEPT ![r] = "failed"]
                   /\ rresp' = [rresp EXCEPT ![r] = Some(InternalServerError)]
    /\ UNCHANGED <<ruser, rkey, rtodo, rprior, dbVars, provider, memoVars, subscribeVars, workerVars,
                   emailVars, adminVars, parseVars>>

\* publish_newsletter, lines 94-97.
PublishGetSubscribers(r) ==
    /\ rpc[r] = "get_confirmed_subscribers"
    /\ rtodo' = [rtodo EXCEPT ![r] = GetConfirmedSubscribers(subscriptions)]
    /\ rpc' = [rpc EXCEPT ![r] = "send_email"]
    /\ UNCHANGED <<ruser, rkey, rresp, rprior, dbVars, provider, memoVars, subscribeVars, workerVars,
                   emailVars, adminVars, parseVars>>

\* publish_newsletter, lines 99-124: one turn of the loop over the subscribers
\* (the SELECT has no ORDER BY). A row whose email does not parse is skipped
\* with a warning; a send_email error ends the request with a 500.
PublishSendEmail(r) ==
    /\ rpc[r] = "send_email"
    /\ \E to \in rtodo[r] :
          IF ~EmailParse(to).ok
          THEN /\ rtodo' = [rtodo EXCEPT ![r] = @ \ {to}]
               /\ UNCHANGED <<provider, rpc, rresp>>
          ELSE \E ok \in BOOLEAN :
               /\ provider' = provider (+) SetToBag({ProviderRequest("publish", r, "-", to, ok)})
               /\ IF ok
                  THEN /\ rtodo' = [rtodo EXCEPT ![r] = @ \ {to}]
                       /\ UNCHANGED <<rpc, rresp>>
                  ELSE /\ rtodo' = [rtodo EXCEPT ![r] = {}]
                       /\ rpc' = [rpc EXCEPT ![r] = "failed"]
                       /\ rresp' = [rresp EXCEPT ![r] = Some(InternalServerError)]
    /\ UNCHANGED <<ruser, rkey, rprior, dbVars, memoVars, subscribeVars, workerVars,
                   emailVars, adminVars, parseVars>>

\* publish_newsletter returned Ok: the handler goes on to save the response.
PublishSent(r) ==
    /\ rpc[r] = "send_email"
    /\ rtodo[r] = {}
    /\ rpc' = [rpc EXCEPT ![r] = "save_response"]
    /\ UNCHANGED <<ruser, rkey, rtodo, rresp, rprior, dbVars, provider, memoVars, subscribeVars, workerVars,
                   emailVars, adminVars, parseVars>>

\* publish_newsletter_with_idempotent_handling, lines 76-81: save_response,
\* whose UPDATE and commit are those of persistence.rs. The handler never calls
\* try_processing, so no row for (user_id, idempotency_key) has been inserted.
PublishSaveResponse(r) ==
    /\ rpc[r] = "save_response"
    /\ idempotency' =
          Commit(UpdateResponse(idempotency, r, rkey[r], ruser[r], RedirectToAdminNewsletters), r)
    /\ rpc' = [rpc EXCEPT ![r] = "published"]
    /\ rresp' = [rresp EXCEPT ![r] = Some(RedirectToAdminNewsletters)]
    /\ UNCHANGED <<ruser, rkey, rtodo, rprior, subscriptions, newsletter_issues,
                   issue_delivery_queue, provider, memoVars, subscribeVars, workerVars,
                   emailVars, adminVars, parseVars>>

\* A database call of the handler fails: map_err(e500)? answers 500.
PublishStorageFailed(r) ==
    /\ rpc[r] \in {"get_saved_response", "get_confirmed_subscribers", "save_response"}
    /\ rpc' = [rpc EXCEPT ![r] = "failed"]
    /\ rresp' = [rresp EXCEPT ![r] = Some(InternalServerError)]
    /\ UNCHANGED <<ruser, rkey, rtodo, rprior, dbVars, provider, memoVars, subscribeVars, workerVars,
                   emailVars, adminVars, parseVars>>

\* reject_anonymous_users on a request whose session holds no user id: the
\* handler is not run and the answer is Redirect::to("/login").
PublishRejectAnonymous(r) ==
    /\ rpc[r] = "idle"
    /\ rpc' = [rpc EXCEPT ![r] = "rejected"]
    /\ rresp' = [rresp EXCEPT ![r] = Some(RedirectToLogin)]
    /\ UNCHANGED <<ruser, rkey, rtodo, rprior, dbVars, provider, memoVars, subscribeVars, workerVars,
                   emailVars, adminVars, parseVars>>

\* The row of one subscriber.
SubscriberRow(email, status) ==
    [id |-> email, name |-> "naruto", email |-> email, status |-> status]

\* The row of the token stored together with a subscriber.
TokenRow(subscription_token, subscriber_id) ==
    [subscription_token |-> subscription_token, subscriber_id |-> subscriber_id]

\* The token stored with the subscriber of an email in the initial tables.
StoredToken(email) ==
    Token(CASE email = "a@x.io" -> "a" [] email = "b@x.io" -> "b" [] OTHER -> "c")

\* Any set of subscribers, one row per email at most, pending or confirmed,
\* each with the token stored when it was inserted.
InitSubscriptions ==
    \E status \in [StoredEmails -> {"absent", PendingConfirmation, Confirmed}] :
        /\ subscriptions =
              {SubscriberRow(e, status[e]) : e \in {x \in StoredEmails : status[x] # "absent"}}
        /\ subscription_tokens =
              {TokenRow(StoredToken(e), e) : e \in {x \in StoredEmails : status[x] # "absent"}}

InitPublish ==
    /\ InitSubscriptions
    /\ idempotency = {}
    /\ newsletter_issues = {}
    /\ issue_delivery_queue = {}
    /\ provider = EmptyBag
    /\ enqueued = {}
    /\ InitPublishIdle
    /\ InitMemoIdle
    /\ InitWorkerIdle
    /\ InitSubscribeIdle
    /\ InitEmailIdle
    /\ InitAdminIdle
    /\ InitParseIdle

NextPublish ==
    \/ \E r \in Requests, user_id \in Users, idempotency_key \in Keys :
          PublishReceive(r, user_id, idempotency_key)
    \/ \E r \in Requests : PublishGetSaved(r)
    \/ \E r \in Requests : PublishGetSubscribers(r)
    \/ \E r \in Requests : PublishSendEmail(r)
    \/ \E r \in Requests : PublishSent(r)
    \/ \E r \in Requests : PublishSaveResponse(r)
    \/ \E r \in Requests : PublishStorageFailed(r)
    \/ \E r \in Requests : PublishRejectAnonymous(r)

SpecPublish == InitPublish /\ [][NextPublish]_vars

\* ------------------------------------------------------------------ POST /subscribe
\* send_confirmation_email: the link is <base>/subscribe/confirm with the
\* query subscription_token=<token>.
ConfirmationLink(subscription_token) ==
    [path |-> "subscribe/confirm", subscription_token |-> subscription_token]

\* The POST /email of a confirmation email: the subscribe request that sent
\* it, the recipient, the name in the body, the link, and the provider's answer.
ConfirmationEmail(req, to, name, link, ok) ==
    [by |-> "subscribe", req |-> req, issue |-> "-", to |-> to, ok |-> ok,
     name |-> name, link |-> link]

\* insert_subscriber: a fresh Uuid::new_v7 for each insert.
NewSubscriberId(s) == "id-" \o ToString(s)

\* Rows of subscriptions inserted by open transactions other than that of s.
UncommittedSubscribers(s) ==
    {swrites[t][1] : t \in {x \in SubscribeRequests \ {s} : swrites[x] # Null}}

\* subscribe without NewSubscriber::try_from: the form is used as it came.
SubscribeReceiveUnvalidated(s, name, email) ==
    /\ spc[s] = "idle"
    /\ \A t \in SubscribeRequests : t < s => spc[t] # "idle"
    /\ sname' = [sname EXCEPT ![s] = name]
    /\ semail' = [semail EXCEPT ![s] = email]
    /\ LET rows == {row \in subscriptions : row.email = email}
       IN  IF FALSE
           THEN /\ spc' = [spc EXCEPT ![s] = "done"]
                /\ sout' = [sout EXCEPT ![s] = "FormValidationError"]
                /\ sfound' = sfound
           ELSE IF rows = {}
           THEN /\ spc' = [spc EXCEPT ![s] = "insert_subscriber"]
                /\ UNCHANGED <<sfound, sout>>
           ELSE \E row \in rows :
                IF row.status = Confirmed
                THEN /\ spc' = [spc EXCEPT ![s] = "done"]
                     /\ sout' = [sout EXCEPT ![s] = "AlreadyConfirmed"]
                     /\ sfound' = sfound
                ELSE /\ spc' = [spc EXCEPT ![s] = "get_existing_subscription_token"]
                     /\ sfound' = [sfound EXCEPT ![s] = Some(row)]
                     /\ sout' = sout
    /\ UNCHANGED <<subscription_tokens, swrites, stoken, qpc, qtoken, qid, qout, qprior,
                   dbVars, provider, publishVars, memoVars, workerVars,
                   emailVars, adminVars, parseVars>>

\* subscribe without the check of the subscriber's status.
SubscribeReceiveAnyStatus(s, name, email) ==
    /\ spc[s] = "idle"
    /\ \A t \in SubscribeRequests : t < s => spc[t] # "idle"
    /\ sname' = [sname EXCEPT ![s] = name]
    /\ semail' = [semail EXCEPT ![s] = email]
    /\ LET rows == {row \in subscriptions : row.email = email}
       IN  IF ~(NameParse(name).ok /\ EmailParse(email).ok)
           THEN /\ spc' = [spc EXCEPT ![s] = "done"]
                /\ sout' = [sout EXCEPT ![s] = "FormValidationError"]
                /\ sfound' = sfound
           ELSE IF rows = {}
           THEN /\ spc' = [spc EXCEPT ![s] = "insert_subscriber"]
                /\ UNCHANGED <<sfound, sout>>
           ELSE \E row \in rows :
                IF FALSE
                THEN /\ spc' = [spc EXCEPT ![s] = "done"]
                     /\ sout' = [sout EXCEPT ![s] = "AlreadyConfirmed"]
                     /\ sfound' = sfound
                ELSE /\ spc' = [spc EXCEPT ![s] = "get_existing_subscription_token"]
                     /\ sfound' = [sfound EXCEPT ![s] = Some(row)]
                     /\ sout' = sout
    /\ UNCHANGED <<subscription_tokens, swrites, stoken, qpc, qtoken, qid, qout, qprior,
                   dbVars, provider, publishVars, memoVars, workerVars,
                   emailVars, adminVars, parseVars>>

\* subscribe, lines 118-138: NewSubscriber::try_from parses the name, then
\* the email, and on an error the request ends before a transaction is begun;
\* otherwise begin, get_existing_subscriber (SELECT ... WHERE email = $1,
\* fetch_optional) and the match on its result. A confirmed subscriber ends
\* the request with AlreadyConfirmed. Requests are numbered in their order of
\* arrival.
SubscribeReceive(s, name, email) ==
    /\ spc[s] = "idle"
    /\ \A t \in SubscribeRequests : t < s => spc[t] # "idle"
    /\ sname' = [sname EXCEPT ![s] = name]
    /\ semail' = [semail EXCEPT ![s] = email]
    /\ LET rows == {row \in subscriptions : row.email = email}
       IN  IF ~(NameParse(name).ok /\ EmailParse(email).ok)
           THEN /\ spc' = [spc EXCEPT ![s] = "done"]
                /\ sout' = [sout EXCEPT ![s] = "FormValidationError"]
                /\ sfound' = sfound
           ELSE IF rows = {}
           THEN /\ spc' = [spc EXCEPT ![s] = "insert_subscriber"]
                /\ UNCHANGED <<sfound, sout>>
           ELSE \E row \in rows :
                IF row.status = Confirmed
                THEN /\ spc' = [spc EXCEPT ![s] = "done"]
                     /\ sout' = [sout EXCEPT ![s] = "AlreadyConfirmed"]
                     /\ sfound' = sfound
                ELSE /\ spc' = [spc EXCEPT ![s] = "get_existing_subscription_token"]
                     /\ sfound' = [sfound EXCEPT ![s] = Some(row)]
                     /\ sout' = sout
    /\ UNCHANGED <<subscription_tokens, swrites, stoken, qpc, qtoken, qid, qout, qprior,
                   dbVars, provider, publishVars, memoVars, workerVars,
                   emailVars, adminVars, parseVars>>

\* get_existing_subscription_token, generating a new token instead of reading
\* the stored one.
SubscribeGetExistingTokenGenerated(s) ==
    /\ spc[s] = "get_existing_subscription_token"
    /\ \E subscription_token \in GeneratedTokens :
          stoken' = [stoken EXCEPT ![s] = Some(subscription_token)]
    /\ spc' = [spc EXCEPT ![s] = "send_confirmation_email"]
    /\ UNCHANGED <<subscription_tokens, sname, semail, sfound, swrites, sout, qpc, qtoken, qid, qout,
                   qprior, dbVars, provider, publishVars, memoVars, workerVars,
                   emailVars, adminVars, parseVars>>

\* subscribe, lines 139-151: get_existing_subscription_token (fetch_one WHERE
\* subscriber_id = $1), and the transaction, which wrote nothing, is rolled
\* back.
SubscribeGetExistingToken(s) ==
    /\ spc[s] = "get_existing_subscription_token"
    /\ LET rows == {t \in subscription_tokens : t.subscriber_id = sfound[s][1].id}
       IN  IF rows = {}
           THEN /\ spc' = [spc EXCEPT ![s] = "done"]
                /\ sout' = [sout EXCEPT ![s] = "UnexpectedError"]
                /\ stoken' = stoken
           ELSE \E t \in rows :
                IF SubscriptionTokenParse(t.subscription_token).ok
                THEN /\ stoken' = [stoken EXCEPT ![s] = Some(t.subscription_token)]
                     /\ spc' = [spc EXCEPT ![s] = "send_confirmation_email"]
                     /\ sout' = sout
                ELSE /\ spc' = [spc EXCEPT ![s] = "done"]
                     /\ sout' = [sout EXCEPT ![s] = "UnexpectedError"]
                     /\ stoken' = stoken
    /\ UNCHANGED <<subscription_tokens, sname, semail, sfound, swrites, qpc, qtoken, qid, qout, qprior,
                   dbVars, provider, publishVars, memoVars, workerVars,
                   emailVars, adminVars, parseVars>>

\* insert_subscriber run on the pool instead of the transaction: the row is
\* committed at once.
SubscribeInsertSubscriberOnPool(s) ==
    /\ spc[s] = "insert_subscriber"
    /\ ~\E row \in subscriptions : row.email = semail[s]
    /\ LET row == [id |-> NewSubscriberId(s), name |-> sname[s],
                   email |-> semail[s], status |-> PendingConfirmation]
       IN  /\ subscriptions' = subscriptions \cup {row}
           /\ swrites' = [swrites EXCEPT ![s] = Some(row)]
    /\ spc' = [spc EXCEPT ![s] = "store_token"]
    /\ UNCHANGED <<subscription_tokens, sname, semail, sfound, stoken, sout, qpc, qtoken, qid, qout,
                   qprior, idempotency, newsletter_issues, issue_delivery_queue,
                   provider, publishVars, memoVars, workerVars, emailVars, adminVars, parseVars>>

\* insert_subscriber with no unique index on email: the row is inserted
\* whatever the table holds.
SubscribeInsertSubscriberNotUnique(s) ==
    /\ spc[s] = "insert_subscriber"
    /\ swrites' = [swrites EXCEPT ![s] =
          Some([id |-> NewSubscriberId(s), name |-> sname[s],
                email |-> semail[s], status |-> PendingConfirmation])]
    /\ spc' = [spc EXCEPT ![s] = "store_token"]
    /\ sout' = sout
    /\ UNCHANGED <<subscription_tokens, sname, semail, sfound, stoken, qpc, qtoken, qid, qout,
                   qprior, dbVars, provider, publishVars, memoVars, workerVars,
                   emailVars, adminVars, parseVars>>

\* insert_subscriber whose INSERT does not wait for the open transaction of
\* another request with the same email: it looks at committed rows only.
SubscribeInsertSubscriberNoWait(s) ==
    /\ spc[s] = "insert_subscriber"
    /\ IF \E row \in subscriptions : row.email = semail[s]
       THEN /\ spc' = [spc EXCEPT ![s] = "done"]
            /\ sout' = [sout EXCEPT ![s] = "UnexpectedError"]
            /\ swrites' = swrites
       ELSE /\ swrites' = [swrites EXCEPT ![s] =
                  Some([id |-> NewSubscriberId(s), name |-> sname[s],
                        email |-> semail[s], status |-> PendingConfirmation])]
            /\ spc' = [spc EXCEPT ![s] = "store_token"]
            /\ sout' = sout
    /\ UNCHANGED <<subscription_tokens, sname, semail, sfound, stoken, qpc, qtoken, qid, qout,
                   qprior, dbVars, provider, publishVars, memoVars, workerVars,
                   emailVars, adminVars, parseVars>>

\* subscribe, lines 156-158: insert_subscriber, INSERT INTO subscriptions with
\* status pending_confirmation inside the transaction. The email is unique:
\* the INSERT waits for an open transaction that inserted the same email, and
\* fails when a committed row has it.
SubscribeInsertSubscriber(s) ==
    /\ spc[s] = "insert_subscriber"
    /\ ~\E row \in UncommittedSubscribers(s) : row.email = semail[s]
    /\ IF \E row \in subscriptions : row.email = semail[s]
       THEN /\ spc' = [spc EXCEPT ![s] = "done"]
            /\ sout' = [sout EXCEPT ![s] = "UnexpectedError"]
            /\ swrites' = swrites
       ELSE /\ swrites' = [swrites EXCEPT ![s] =
                  Some([id |-> NewSubscriberId(s), name |-> sname[s],
                        email |-> semail[s], status |-> PendingConfirmation])]
            /\ spc' = [spc EXCEPT ![s] = "store_token"]
            /\ sout' = sout
    /\ UNCHANGED <<subscription_tokens, sname, semail, sfound, stoken, qpc, qtoken, qid, qout,
                   qprior, dbVars, provider, publishVars, memoVars, workerVars,
                   emailVars, adminVars, parseVars>>

\* subscribe going on to send_confirmation_email with the generated token
\* while the transaction that inserts the subscriber and the token is open.
SubscribeStoreTokenUncommitted(s) ==
    /\ spc[s] = "store_token"
    /\ \E subscription_token \in Generate({t.subscription_token : t \in subscription_tokens}) :
          stoken' = [stoken EXCEPT ![s] = Some(subscription_token)]
    /\ spc' = [spc EXCEPT ![s] = "send_confirmation_email"]
    /\ UNCHANGED <<subscription_tokens, sname, semail, sfound, swrites, sout, qpc, qtoken, qid, qout,
                   qprior, dbVars, provider, publishVars, memoVars, workerVars,
                   emailVars, adminVars, parseVars>>

\* subscribe, lines 161-170: SubscriptionToken::generate, store_token (INSERT
\* INTO subscription_tokens inside the transaction) and commit: the subscriber
\* row and its token row become visible together. The token is unique: when a
\* committed row has it the INSERT fails, ending the request and its
\* transaction.
SubscribeStoreToken(s) ==
    /\ spc[s] = "store_token"
    /\ \E subscription_token \in Generate({t.subscription_token : t \in subscription_tokens}) :
          IF \E t \in subscription_tokens : t.subscription_token = subscription_token
          THEN /\ spc' = [spc EXCEPT ![s] = "done"]
               /\ sout' = [sout EXCEPT ![s] = "UnexpectedError"]
               /\ UNCHANGED <<subscriptions, subscription_tokens, stoken>>
          ELSE /\ subscriptions' = subscriptions \cup {swrites[s][1]}
               /\ subscription_tokens' = subscription_tokens \cup
                      {TokenRow(subscription_token, swrites[s][1].id)}
               /\ stoken' = [stoken EXCEPT ![s] = Some(subscription_token)]
               /\ spc' = [spc EXCEPT ![s] = "send_confirmation_email"]
               /\ sout' = sout
    /\ swrites' = [swrites EXCEPT ![s] = Null]
    /\ UNCHANGED <<sname, semail, sfound, qpc, qtoken, qid, qout, qprior,
                   idempotency, newsletter_issues, issue_delivery_queue,
                   provider, publishVars, memoVars, workerVars, emailVars, adminVars, parseVars>>

\* new_subscriber.name when the email is sent: the submitted name, replaced
\* by the stored one (line 145) when the subscriber existed.
NewSubscriberName(s) == IF sfound[s] # Null THEN sfound[s][1].name ELSE sname[s]

\* send_confirmation_email whose transport error takes the subscriber and its
\* token out of the store again.
SubscribeSendEmailUndoing(s) ==
    /\ spc[s] = "send_confirmation_email"
    /\ \E ok \in {TRUE} \cup {x \in {FALSE} : faults < MaxFaults} :
          /\ provider' = provider (+) SetToBag({ConfirmationEmail(s, semail[s], NewSubscriberName(s),
                             ConfirmationLink(stoken[s][1]), ok)})
          /\ sout' = [sout EXCEPT ![s] = IF ok THEN "Ok" ELSE "UnexpectedError"]
          /\ faults' = IF ok THEN faults ELSE faults + 1
          /\ subscriptions' = IF ok THEN subscriptions
                              ELSE {row \in subscriptions : row.email # semail[s]}
          /\ subscription_tokens' =
                 IF ok THEN subscription_tokens
                 ELSE {t \in subscription_tokens : t.subscription_token # stoken[s][1]}
    /\ spc' = [spc EXCEPT ![s] = "done"]
    /\ UNCHANGED <<sname, semail, sfound, swrites, stoken, qpc, qtoken, qid,
                   qout, qprior, idempotency, newsletter_issues, issue_delivery_queue,
                   publishVars, memoVars,
                   wpc, wtask, wsent, woutcome, enqueued, aborted, emailVars, adminVars, parseVars>>

\* subscribe, lines 175-184: send_confirmation_email; a SendEmailError ends
\* the request with UnexpectedError, after the commit. A transport error is
\* one of the injected failures.
SubscribeSendEmail(s) ==
    /\ spc[s] = "send_confirmation_email"
    /\ \E ok \in {TRUE} \cup {x \in {FALSE} : faults < MaxFaults} :
          /\ provider' = provider (+) SetToBag({ConfirmationEmail(s, semail[s], NewSubscriberName(s),
                             ConfirmationLink(stoken[s][1]), ok)})
          /\ sout' = [sout EXCEPT ![s] = IF ok THEN "Ok" ELSE "UnexpectedError"]
          /\ faults' = IF ok THEN faults ELSE faults + 1
    /\ spc' = [spc EXCEPT ![s] = "done"]
    /\ UNCHANGED <<subscription_tokens, sname, semail, sfound, swrites, stoken, qpc, qtoken, qid,
                   qout, qprior, dbVars, publishVars, memoVars,
                   wpc, wtask, wsent, woutcome, enqueued, aborted, emailVars, adminVars, parseVars>>

\* A database call of subscribe fails (or the request is cancelled): the
\* error is returned with ?, and the dropped transaction rolls back.
SubscribeStorageFailed(s) ==
    /\ faults < MaxFaults
    /\ faults' = faults + 1
    /\ spc[s] \in {"get_existing_subscription_token", "insert_subscriber", "store_token"}
    /\ swrites' = [swrites EXCEPT ![s] = Null]
    /\ spc' = [spc EXCEPT ![s] = "done"]
    /\ sout' = [sout EXCEPT ![s] = "UnexpectedError"]
    /\ UNCHANGED <<subscription_tokens, sname, semail, sfound, stoken, qpc, qtoken, qid, qout,
                   qprior, dbVars, provider, publishVars, memoVars,
                   wpc, wtask, wsent, woutcome, enqueued, aborted, emailVars, adminVars, parseVars>>

\* IntoResponse for SubscribeError, and 200 for Ok(()).
SubscribeStatusCode(outcome) ==
    CASE outcome = "Ok" -> 200
      [] outcome = "FormValidationError" -> 422
      [] outcome = "AlreadyConfirmed" -> 409
      [] OTHER -> 500

\* ------------------------------------------------------------------ GET /subscribe/confirm
\* The tokens a client can put in the query: those of the confirmation links
\* that were emailed, and the ones nobody was sent.
ClientTokens ==
    {m.link.subscription_token : m \in {x \in DOMAIN provider : x.by = "subscribe"}}
        \cup (QueryTokens \ GeneratedTokens)

\* confirm, lines 81-91: SubscriptionToken::parse of the query parameter, and
\* on an error the request ends with TokenValidationError before any query is
\* run; otherwise get_subscriber_id_from_token on the pool (fetch_optional),
\* where no row ends the request with TokenNotFound. Requests are numbered in
\* their order of arrival.
ConfirmReceive(q, subscription_token) ==
    /\ qpc[q] = "idle"
    /\ \A p \in ConfirmRequests : p < q => qpc[p] # "idle"
    /\ subscription_token \in ClientTokens
    /\ qtoken' = [qtoken EXCEPT ![q] = subscription_token]
    /\ qprior' = [qprior EXCEPT ![q] =
                     {p \in ConfirmRequests : qout[p] = "Ok" /\ qtoken[p] = subscription_token}]
    /\ LET rows == {t \in subscription_tokens : t.subscription_token = subscription_token}
       IN  IF ~SubscriptionTokenParse(subscription_token).ok
           THEN /\ qpc' = [qpc EXCEPT ![q] = "done"]
                /\ qout' = [qout EXCEPT ![q] = "TokenValidationError"]
                /\ qid' = qid
           ELSE IF rows = {}
           THEN /\ qpc' = [qpc EXCEPT ![q] = "done"]
                /\ qout' = [qout EXCEPT ![q] = "TokenNotFound"]
                /\ qid' = qid
           ELSE \E t \in rows :
                /\ qid' = [qid EXCEPT ![q] = Some(t.subscriber_id)]
                /\ qpc' = [qpc EXCEPT ![q] = "get_subscriber_status"]
                /\ qout' = qout
    /\ UNCHANGED <<subscription_tokens, spc, sname, semail, sfound, swrites, stoken, sout,
                   dbVars, provider, publishVars, memoVars, workerVars,
                   emailVars, adminVars, parseVars>>

\* confirm without the status check: every request whose token was found goes
\* on to confirm_subscriber.
ConfirmGetStatusUnchecked(q) ==
    /\ qpc[q] = "get_subscriber_status"
    /\ IF {row \in subscriptions : row.id = qid[q][1]} = {}
       THEN /\ qpc' = [qpc EXCEPT ![q] = "done"]
            /\ qout' = [qout EXCEPT ![q] = "UnexpectedError"]
       ELSE /\ qpc' = [qpc EXCEPT ![q] = "confirm_subscriber"]
            /\ qout' = qout
    /\ UNCHANGED <<subscription_tokens, spc, sname, semail, sfound, swrites, stoken, sout, qtoken,
                   qid, qprior, dbVars, provider, publishVars, memoVars, workerVars,
                   emailVars, adminVars, parseVars>>

\* confirm, lines 94-99: get_subscriber_status on the pool (fetch_one); a
\* confirmed subscriber ends the request with AlreadyConfirmed.
ConfirmGetStatus(q) ==
    /\ qpc[q] = "get_subscriber_status"
    /\ LET rows == {row \in subscriptions : row.id = qid[q][1]}
       IN  IF rows = {}
           THEN /\ qpc' = [qpc EXCEPT ![q] = "done"]
                /\ qout' = [qout EXCEPT ![q] = "UnexpectedError"]
           ELSE \E row \in rows :
                IF row.status = Confirmed
                THEN /\ qpc' = [qpc EXCEPT ![q] = "done"]
                     /\ qout' = [qout EXCEPT ![q] = "AlreadyConfirmed"]
                ELSE /\ qpc' = [qpc EXCEPT ![q] = "confirm_subscriber"]
                     /\ qout' = qout
    /\ UNCHANGED <<subscription_tokens, spc, sname, semail, sfound, swrites, stoken, sout, qtoken,
                   qid, qprior, dbVars, provider, publishVars, memoVars, workerVars,
                   emailVars, adminVars, parseVars>>

\* confirm_subscriber deleting the row instead of updating it.
ConfirmSubscriberDeletes(q) ==
    /\ qpc[q] = "confirm_subscriber"
    /\ subscriptions' = {row \in subscriptions : row.id # qid[q][1]}
    /\ qpc' = [qpc EXCEPT ![q] = "done"]
    /\ qout' = [qout EXCEPT ![q] = "Ok"]
    /\ UNCHANGED <<subscription_tokens, spc, sname, semail, sfound, swrites, stoken, sout, qtoken,
                   qid, qprior, idempotency, newsletter_issues, issue_delivery_queue,
                   provider, publishVars, memoVars, workerVars, emailVars, adminVars, parseVars>>

\* confirm_subscriber writing the status it read back instead of confirmed.
ConfirmSubscriberKeepsStatus(q) ==
    /\ qpc[q] = "confirm_subscriber"
    /\ qpc' = [qpc EXCEPT ![q] = "done"]
    /\ qout' = [qout EXCEPT ![q] = "Ok"]
    /\ UNCHANGED <<subscription_tokens, spc, sname, semail, sfound, swrites, stoken, sout, qtoken,
                   qid, qprior, dbVars, provider, publishVars, memoVars, workerVars,
                   emailVars, adminVars, parseVars>>

\* confirm, lines 102-106: confirm_subscriber, UPDATE subscriptions SET status
\* = 'confirmed' WHERE id = $2 on the pool, then Ok(()).
ConfirmSubscriber(q) ==
    /\ qpc[q] = "confirm_subscriber"
    /\ subscriptions' = {IF row.id = qid[q][1] THEN [row EXCEPT !.status = Confirmed] ELSE row :
                            row \in subscriptions}
    /\ qpc' = [qpc EXCEPT ![q] = "done"]
    /\ qout' = [qout EXCEPT ![q] = "Ok"]
    /\ UNCHANGED <<subscription_tokens, spc, sname, semail, sfound, swrites, stoken, sout, qtoken,
                   qid, qprior, idempotency, newsletter_issues, issue_delivery_queue,
                   provider, publishVars, memoVars, workerVars, emailVars, adminVars, parseVars>>

\* A query of confirm fails: the error is returned with ? as UnexpectedError.
ConfirmStorageFailed(q) ==
    /\ faults < MaxFaults
    /\ faults' = faults + 1
    /\ qpc[q] \in {"get_subscriber_status", "confirm_subscriber"}
    /\ qpc' = [qpc EXCEPT ![q] = "done"]
    /\ qout' = [qout EXCEPT ![q] = "UnexpectedError"]
    /\ UNCHANGED <<subscription_tokens, spc, sname, semail, sfound, swrites, stoken, sout, qtoken,
                   qid, qprior, dbVars, provider, publishVars, memoVars,
                   wpc, wtask, wsent, woutcome, enqueued, aborted, emailVars, adminVars, parseVars>>

\* IntoResponse for ConfirmSubscriptionError, and 200 for Ok(()).
ConfirmStatusCode(outcome) ==
    CASE outcome = "Ok" -> 200
      [] outcome \in {"TokenValidationError", "TokenNotFound"} -> 401
      [] outcome = "AlreadyConfirmed" -> 409
      [] OTHER -> 500

\* The service starts with empty tables.
InitSubscribe ==
    /\ InitDatabaseEmpty
    /\ provider = EmptyBag
    /\ enqueued = {}
    /\ InitPublishIdle
    /\ InitMemoIdle
    /\ InitWorkerIdle
    /\ InitSubscribeIdle
    /\ InitEmailIdle
    /\ InitAdminIdle
    /\ InitParseIdle

NextSubscribe ==
    \/ \E s \in SubscribeRequests, form \in SubscribeForms :
          SubscribeReceive(s, form[1], form[2])
    \/ \E s \in SubscribeRequests : SubscribeGetExistingToken(s)
    \/ \E s \in SubscribeRequests : SubscribeInsertSubscriber(s)
    \/ \E s \in SubscribeRequests : SubscribeStoreToken(s)
    \/ \E s \in SubscribeRequests : SubscribeSendEmail(s)
    \/ \E s \in SubscribeRequests : SubscribeStorageFailed(s)
    \/ \E q \in ConfirmRequests, subscription_token \in QueryTokens :
          ConfirmReceive(q, subscription_token)
    \/ \E q \in ConfirmRequests : ConfirmGetStatus(q)
    \/ \E q \in ConfirmRequests : ConfirmSubscriber(q)
    \/ \E q \in ConfirmRequests : ConfirmStorageFailed(q)

SpecSubscribe == InitSubscribe /\ [][NextSubscribe]_vars

\* ------------------------------------------------------------------ delivery worker
\* A row of issue_delivery_queue; the primary key is the pair.
Task(newsletter_issue_id, subscriber_email) ==
    [newsletter_issue_id |-> newsletter_issue_id, subscriber_email |-> subscriber_email]

\* Rows locked by the open transaction of some worker (SELECT ... FOR UPDATE).
Locked == {wtask[w][1] : w \in {v \in Workers : wtask[v] # Null}}

\* What the worker adds to the bag of aborted iterations when it gives up
\* its transaction: the task, if the email had already been sent.
AbortedAfter(w) ==
    IF wsent[w] THEN aborted (+) SetToBag({wtask[w][1]}) ELSE aborted

\* dequeue_task without FOR UPDATE SKIP LOCKED: any row of the queue is
\* returned, locked or not.
WorkerDequeueNoLock(w) ==
    /\ wpc[w] = "idle"
    /\ IF issue_delivery_queue = {}
       THEN /\ woutcome' = [woutcome EXCEPT ![w] = "EmptyQueue"]
            /\ UNCHANGED <<wpc, wtask>>
       ELSE \E task \in issue_delivery_queue :
            /\ wtask' = [wtask EXCEPT ![w] = Some(task)]
            /\ wpc' = [wpc EXCEPT ![w] = "dequeued"]
            /\ woutcome' = woutcome
    /\ UNCHANGED <<wsent, enqueued, aborted, faults, dbVars, provider, publishVars, memoVars, subscribeVars,
                   emailVars, adminVars, parseVars>>

\* dequeue_task with a SELECT that returns no row, whatever the queue holds.
WorkerDequeueNothing(w) ==
    /\ wpc[w] = "idle"
    /\ woutcome' = [woutcome EXCEPT ![w] = "EmptyQueue"]
    /\ UNCHANGED <<wpc, wtask, wsent, enqueued, aborted, faults, dbVars, provider, publishVars,
                   memoVars, subscribeVars, emailVars, adminVars, parseVars>>

\* dequeue_task: begin a transaction and SELECT one row FOR UPDATE SKIP LOCKED.
\* No row: try_execute_task returns EmptyQueue and the loop sleeps.
WorkerDequeue(w) ==
    /\ wpc[w] = "idle"
    /\ LET free == issue_delivery_queue \ Locked
       IN  IF free = {}
           THEN /\ woutcome' = [woutcome EXCEPT ![w] = "EmptyQueue"]
                /\ UNCHANGED <<wpc, wtask>>
           ELSE \E task \in free :
                /\ wtask' = [wtask EXCEPT ![w] = Some(task)]
                /\ wpc' = [wpc EXCEPT ![w] = "dequeued"]
                /\ woutcome' = woutcome
    /\ UNCHANGED <<wsent, enqueued, aborted, faults, dbVars, provider, publishVars, memoVars, subscribeVars,
                   emailVars, adminVars, parseVars>>

\* try_execute_task without Email::parse: get_issue and send_email are run
\* for every stored email.
WorkerGetIssueUnparsed(w) ==
    /\ wpc[w] = "dequeued"
    /\ IF wtask[w][1].newsletter_issue_id \in newsletter_issues
       THEN /\ wpc' = [wpc EXCEPT ![w] = "send_email"]
            /\ UNCHANGED <<wtask, woutcome>>
       ELSE /\ wpc' = [wpc EXCEPT ![w] = "idle"]
            /\ wtask' = [wtask EXCEPT ![w] = Null]
            /\ woutcome' = [woutcome EXCEPT ![w] = "Err"]
    /\ UNCHANGED <<wsent, enqueued, aborted, faults, dbVars, provider, publishVars, memoVars, subscribeVars,
                   emailVars, adminVars, parseVars>>

\* try_execute_task returning the error of Email::parse: a task whose stored
\* email does not parse is rolled back into the queue, not deleted.
WorkerGetIssueRejecting(w) ==
    /\ wpc[w] = "dequeued"
    /\ LET task == wtask[w][1] IN
       IF EmailParse(task.subscriber_email).ok /\ task.newsletter_issue_id \in newsletter_issues
       THEN /\ wpc' = [wpc EXCEPT ![w] = "send_email"]
            /\ UNCHANGED <<wtask, woutcome>>
       ELSE /\ wpc' = [wpc EXCEPT ![w] = "idle"]
            /\ wtask' = [wtask EXCEPT ![w] = Null]
            /\ woutcome' = [woutcome EXCEPT ![w] = "Err"]
    /\ UNCHANGED <<wsent, enqueued, aborted, faults, dbVars, provider, publishVars, memoVars, subscribeVars,
                   emailVars, adminVars, parseVars>>

\* try_execute_task, lines 67-69: Email::parse of the stored email; when it
\* parses, get_issue on the pool. An invalid email is logged and the task goes
\* straight to delete_task; a missing issue row makes fetch_one fail, the
\* error is returned and the transaction dropped.
WorkerGetIssue(w) ==
    /\ wpc[w] = "dequeued"
    /\ LET task == wtask[w][1] IN
       IF ~EmailParse(task.subscriber_email).ok
       THEN /\ wpc' = [wpc EXCEPT ![w] = "delete_task"]
            /\ UNCHANGED <<wtask, woutcome>>
       ELSE IF task.newsletter_issue_id \in newsletter_issues
       THEN /\ wpc' = [wpc EXCEPT ![w] = "send_email"]
            /\ UNCHANGED <<wtask, woutcome>>
       ELSE /\ wpc' = [wpc EXCEPT ![w] = "idle"]
            /\ wtask' = [wtask EXCEPT ![w] = Null]
            /\ woutcome' = [woutcome EXCEPT ![w] = "Err"]
    /\ UNCHANGED <<wsent, enqueued, aborted, faults, dbVars, provider, publishVars, memoVars, subscribeVars,
                   emailVars, adminVars, parseVars>>

\* try_execute_task going on to delete_task without calling send_email.
WorkerSendEmailSkipped(w) ==
    /\ wpc[w] = "send_email"
    /\ wpc' = [wpc EXCEPT ![w] = "delete_task"]
    /\ UNCHANGED <<wtask, wsent, woutcome, enqueued, aborted, faults, dbVars, provider,
                   publishVars, memoVars, subscribeVars, emailVars, adminVars, parseVars>>

\* try_execute_task, lines 70-84: one send_email; an error is logged and the
\* iteration goes on to delete_task all the same.
WorkerSendEmail(w) ==
    /\ wpc[w] = "send_email"
    /\ \E ok \in BOOLEAN :
          provider' = provider (+) SetToBag({ProviderRequest("worker", 0,
                          wtask[w][1].newsletter_issue_id, wtask[w][1].subscriber_email, ok)})
    /\ wsent' = [wsent EXCEPT ![w] = TRUE]
    /\ wpc' = [wpc EXCEPT ![w] = "delete_task"]
    /\ UNCHANGED <<wtask, woutcome, enqueued, aborted, faults, dbVars, publishVars, memoVars, subscribeVars,
                   emailVars, adminVars, parseVars>>

\* delete_task with a WHERE clause that matches no row: the commit succeeds
\* and the task stays in the queue.
WorkerDeleteTaskNoMatch(w) ==
    /\ wpc[w] = "delete_task"
    /\ wtask' = [wtask EXCEPT ![w] = Null]
    /\ wsent' = [wsent EXCEPT ![w] = FALSE]
    /\ woutcome' = [woutcome EXCEPT ![w] = "TaskCompleted"]
    /\ wpc' = [wpc EXCEPT ![w] = "idle"]
    /\ UNCHANGED <<enqueued, aborted, faults, dbVars, provider, publishVars, memoVars, subscribeVars,
                   emailVars, adminVars, parseVars>>

\* delete_task that deletes the row only when no send for it failed, and
\* commits either way.
WorkerDeleteTaskIfDelivered(w) ==
    /\ wpc[w] = "delete_task"
    /\ issue_delivery_queue' =
          IF ProviderRequest("worker", 0, wtask[w][1].newsletter_issue_id,
                             wtask[w][1].subscriber_email, FALSE) \in DOMAIN provider
          THEN issue_delivery_queue
          ELSE issue_delivery_queue \ {wtask[w][1]}
    /\ wtask' = [wtask EXCEPT ![w] = Null]
    /\ wsent' = [wsent EXCEPT ![w] = FALSE]
    /\ woutcome' = [woutcome EXCEPT ![w] = "TaskCompleted"]
    /\ wpc' = [wpc EXCEPT ![w] = "idle"]
    /\ UNCHANGED <<enqueued, aborted, faults, subscriptions, idempotency, newsletter_issues,
                   provider, publishVars, memoVars, subscribeVars, emailVars, adminVars, parseVars>>

\* delete_task: DELETE the row of (issue_id, email) and commit the transaction
\* that locked it; try_execute_task returns TaskCompleted.
WorkerDeleteTask(w) ==
    /\ wpc[w] = "delete_task"
    /\ issue_delivery_queue' = issue_delivery_queue \ {wtask[w][1]}
    /\ wtask' = [wtask EXCEPT ![w] = Null]
    /\ wsent' = [wsent EXCEPT ![w] = FALSE]
    /\ woutcome' = [woutcome EXCEPT ![w] = "TaskCompleted"]
    /\ wpc' = [wpc EXCEPT ![w] = "idle"]
    /\ UNCHANGED <<enqueued, aborted, faults, subscriptions, idempotency, newsletter_issues,
                   provider, publishVars, memoVars, subscribeVars, emailVars, adminVars, parseVars>>

\* A database failure of the iteration whose transaction is committed all
\* the same, with the row of the task deleted.
WorkerStorageFailedCommitting(w) ==
    /\ faults < MaxFaults
    /\ \/ wpc[w] \in {"idle", "delete_task"}
       \/ wpc[w] = "dequeued" /\ EmailParse(wtask[w][1].subscriber_email).ok
    /\ faults' = faults + 1
    /\ aborted' = AbortedAfter(w)
    /\ issue_delivery_queue' =
          IF wtask[w] = Null THEN issue_delivery_queue ELSE issue_delivery_queue \ {wtask[w][1]}
    /\ wtask' = [wtask EXCEPT ![w] = Null]
    /\ wsent' = [wsent EXCEPT ![w] = FALSE]
    /\ woutcome' = [woutcome EXCEPT ![w] = "Err"]
    /\ wpc' = [wpc EXCEPT ![w] = "idle"]
    /\ UNCHANGED <<enqueued, subscriptions, idempotency, newsletter_issues, provider, publishVars,
                   memoVars, subscribeVars, emailVars, adminVars, parseVars>>

\* A database call of the iteration fails (dequeue_task, get_issue or
\* delete_task): ? returns the error, the transaction is dropped and rolls
\* back, the row lock is released, and worker_loop sleeps one second.
WorkerStorageFailed(w) ==
    /\ faults < MaxFaults
    /\ \/ wpc[w] \in {"idle", "delete_task"}
       \/ wpc[w] = "dequeued" /\ EmailParse(wtask[w][1].subscriber_email).ok
    /\ faults' = faults + 1
    /\ aborted' = AbortedAfter(w)
    /\ wtask' = [wtask EXCEPT ![w] = Null]
    /\ wsent' = [wsent EXCEPT ![w] = FALSE]
    /\ woutcome' = [woutcome EXCEPT ![w] = "Err"]
    /\ wpc' = [wpc EXCEPT ![w] = "idle"]
    /\ UNCHANGED <<enqueued, dbVars, provider, publishVars, memoVars, subscribeVars,
                   emailVars, adminVars, parseVars>>

\* A kill of the worker process after which the database commits the open
\* transaction, with the row of the task deleted.
WorkerCrashCommitting(w) ==
    /\ faults < MaxFaults
    /\ wpc[w] # "idle"
    /\ faults' = faults + 1
    /\ aborted' = AbortedAfter(w)
    /\ issue_delivery_queue' = issue_delivery_queue \ {wtask[w][1]}
    /\ wtask' = [wtask EXCEPT ![w] = Null]
    /\ wsent' = [wsent EXCEPT ![w] = FALSE]
    /\ woutcome' = [woutcome EXCEPT ![w] = "none"]
    /\ wpc' = [wpc EXCEPT ![w] = "idle"]
    /\ UNCHANGED <<enqueued, subscriptions, idempotency, newsletter_issues, provider, publishVars,
                   memoVars, subscribeVars, emailVars, adminVars, parseVars>>

\* The worker process is killed in the middle of an iteration and restarted:
\* the database rolls its open transaction back.
WorkerCrash(w) ==
    /\ faults < MaxFaults
    /\ wpc[w] # "idle"
    /\ faults' = faults + 1
    /\ aborted' = AbortedAfter(w)
    /\ wtask' = [wtask EXCEPT ![w] = Null]
    /\ wsent' = [wsent EXCEPT ![w] = FALSE]
    /\ woutcome' = [woutcome EXCEPT ![w] = "none"]
    /\ wpc' = [wpc EXCEPT ![w] = "idle"]
    /\ UNCHANGED <<enqueued, dbVars, provider, publishVars, memoVars, subscribeVars,
                   emailVars, adminVars, parseVars>>

\* The delivery tasks the queue may hold: one subscriber of every issue, and
\* one row whose stored email does not parse.
QueuedTasks == {Task(i, "a@x.io") : i \in Issues} \cup {Task("i1", "not-an-email")}

\* The worker starts over a database that holds the issues and any set of
\* delivery tasks for them.
InitWorker ==
    /\ subscriptions = {SubscriberRow(e, Confirmed) : e \in StoredEmails}
    /\ subscription_tokens = {TokenRow(StoredToken(e), e) : e \in StoredEmails}
    /\ idempotency = {}
    /\ newsletter_issues = Issues
    /\ issue_delivery_queue \in SUBSET QueuedTasks
    /\ enqueued = issue_delivery_queue
    /\ provider = EmptyBag
    /\ InitPublishIdle
    /\ InitMemoIdle
    /\ InitWorkerIdle
    /\ InitSubscribeIdle
    /\ InitEmailIdle
    /\ InitAdminIdle
    /\ InitParseIdle

NextWorker ==
    \/ \E w \in Workers : WorkerDequeue(w)
    \/ \E w \in Workers : WorkerGetIssue(w)
    \/ \E w \in Workers : WorkerSendEmail(w)
    \/ \E w \in Workers : WorkerDeleteTask(w)
    \/ \E w \in Workers : WorkerStorageFailed(w)
    \/ \E w \in Workers : WorkerCrash(w)

SpecWorker == InitWorker /\ [][NextWorker]_vars

\* An iteration step of worker w when the provider answers 200: send_email
\* returns Ok.
WorkerSendEmailDelivered(w) ==
    /\ WorkerSendEmail(w)
    /\ \A m \in DOMAIN provider' : m.by = "worker" => m.ok

\* One step of worker_loop of worker w with no database failure and a provider
\* that answers 200.
WorkerIteration(w) ==
    \/ WorkerDequeue(w)
    \/ WorkerGetIssue(w)
    \/ WorkerSendEmailDelivered(w)
    \/ WorkerDeleteTask(w)

NextWorkerHealthy == \E w \in Workers : WorkerIteration(w)

\* worker_loop never returns: every worker goes on taking steps (its sleeps
\* are finite).
SpecWorkerHealthy ==
    InitWorker /\ [][NextWorkerHealthy]_vars /\ \A w \in Workers : WF_vars(WorkerIteration(w))

\* The delivery task for which the database fails every time its issue is
\* fetched.
FailingTask == Task("i2", "a@x.io")

\* try_execute_task, line 69, for the failing task: get_issue(...).await?
\* returns the error, the transaction of dequeue_task is dropped and rolls
\* back, and worker_loop sleeps one second.
WorkerGetIssueFailed(w) ==
    /\ wpc[w] = "dequeued"
    /\ wtask[w] = Some(FailingTask)
    /\ wtask' = [wtask EXCEPT ![w] = Null]
    /\ woutcome' = [woutcome EXCEPT ![w] = "Err"]
    /\ wpc' = [wpc EXCEPT ![w] = "idle"]
    /\ UNCHANGED <<wsent, enqueued, aborted, faults, dbVars, provider, publishVars, memoVars,
                   subscribeVars, emailVars, adminVars, parseVars>>

\* One step of worker_loop of worker w when the database fails on the issue
\* of the failing task and on nothing else; the provider answers as it likes.
WorkerLoopStep(w) ==
    \/ WorkerDequeue(w)
    \/ wtask[w] # Some(FailingTask) /\ WorkerGetIssue(w)
    \/ WorkerGetIssueFailed(w)
    \/ WorkerSendEmail(w)
    \/ WorkerDeleteTask(w)

NextWorkerLoop == \E w \in Workers : WorkerLoopStep(w)

\* worker_loop never returns and its sleeps are finite: every worker goes on
\* taking steps. Which unlocked row dequeue_task returns is not constrained.
SpecWorkerLoop ==
    InitWorker /\ [][NextWorkerLoop]_vars /\ \A w \in Workers : WF_vars(WorkerLoopStep(w))

\* ------------------------------------------------------------------ idempotency API, calls in progress
\* Every caller has made its call of try_processing, as some user with the
\* key k1, and none has returned yet.
InitMemoCalls ==
    /\ InitDatabaseEmpty
    /\ provider = EmptyBag
    /\ enqueued = {}
    /\ cpc = [c \in Callers |-> "idle"]
    /\ cuser \in [Callers -> Users]
    /\ ckey = [c \in Callers |-> "k1"]
    /\ cout = [c \in Callers |-> Null]
    /\ first_saved = [p \in Users \X Keys |-> Null]
    /\ InitPublishIdle
    /\ InitWorkerIdle
    /\ InitSubscribeIdle
    /\ InitEmailIdle
    /\ InitAdminIdle
    /\ InitParseIdle

NextMemoCalls ==
    \/ \E c \in Callers : TryProcessing(c, cuser[c], ckey[c])
    \/ \E c \in Callers : HolderEnds(c)

\* The INSERT of a call goes on as soon as no open transaction holds a row of
\* its pair for good, and every caller that was told StartProcessing ends its
\* transaction.
SpecMemoCalls ==
    /\ InitMemoCalls
    /\ [][NextMemoCalls]_vars
    /\ \A c \in Callers : WF_vars(TryProcessing(c, cuser[c], ckey[c]))
    /\ \A c \in Callers : WF_vars(HolderEnds(c))

\* ------------------------------------------------------------------ email client
\* The statuses the provider answers with.
ProviderStatuses == {200, 202, 204, 304, 400, 401, 404, 422, 500, 503}

\* Response::error_for_status: Err for a client error or a server error
\* status, Ok(response) for every other status.
ErrorForStatus(status) == IF status \in 400..599 THEN "Err" ELSE "Ok"

\* send_email builds the request and sends it: one POST.
SendEmailPost(c) ==
    /\ epc[c] = "idle"
    /\ epc' = [epc EXCEPT ![c] = "posted"]
    /\ eposts' = [eposts EXCEPT ![c] = @ + 1]
    /\ UNCHANGED <<eresp, eresult>>
    /\ UNCHANGED <<dbVars, provider, publishVars, memoVars, workerVars, subscribeVars, adminVars,
                   parseVars>>

\* A response arrives within the timeout: error_for_status decides the result.
SendEmailResponse(c, status) ==
    /\ epc[c] = "posted"
    /\ epc' = [epc EXCEPT ![c] = "done"]
    /\ eresp' = [eresp EXCEPT ![c] = status]
    /\ eresult' = [eresult EXCEPT ![c] = ErrorForStatus(status)]
    /\ UNCHANGED eposts
    /\ UNCHANGED <<dbVars, provider, publishVars, memoVars, workerVars, subscribeVars, adminVars,
                   parseVars>>

\* No response arrives within the timeout: send().await? returns the error.
SendEmailTimeout(c) ==
    /\ epc[c] = "posted"
    /\ epc' = [epc EXCEPT ![c] = "done"]
    /\ eresult' = [eresult EXCEPT ![c] = "Err"]
    /\ UNCHANGED <<eposts, eresp>>
    /\ UNCHANGED <<dbVars, provider, publishVars, memoVars, workerVars, subscribeVars, adminVars,
                   parseVars>>

InitEmailClient ==
    /\ InitDatabaseEmpty
    /\ provider = EmptyBag
    /\ enqueued = {}
    /\ InitPublishIdle
    /\ InitMemoIdle
    /\ InitWorkerIdle
    /\ InitSubscribeIdle
    /\ InitEmailIdle
    /\ InitAdminIdle
    /\ InitParseIdle

NextEmailClient ==
    \/ \E c \in Calls : SendEmailPost(c)
    \/ \E c \in Calls, status \in ProviderStatuses : SendEmailResponse(c, status)
    \/ \E c \in Calls : SendEmailTimeout(c)

SpecEmailClient == InitEmailClient /\ [][NextEmailClient]_vars

\* ------------------------------------------------------------------ subscription token
\* The string of n characters c whose i-th character is d.
Varied(n, c, i, d) == [j \in 1..n |-> IF j = i THEN d ELSE c]

\* The strings handed to SubscriptionToken::parse: every length up to
\* MaxTokenLength, with letters and digits of ASCII and of other scripts, and
\* characters that are neither.
TokenChars == Alphanumeric \cup {"=", "-", " "}
TokenInputs ==
    {<< >>} \cup
    UNION {{Varied(n, c, i, d) : c \in {"a", "7", "e_acute"}, i \in {1, n}, d \in TokenChars} :
           n \in 1..MaxTokenLength}

\* SubscriptionToken::generate: 25 characters, each drawn from the
\* Alphanumeric distribution.
GenerateTokens ==
    {Varied(TOKEN_LENGTH, c, i, d) : c \in AsciiAlphanumeric, i \in 1..TOKEN_LENGTH,
                                     d \in AsciiAlphanumeric}

\* generate() returns a token, which is then handed to parse as a string.
SubscriptionTokenGenerate ==
    /\ pin = Null
    /\ \E t \in GenerateTokens : pin' = Some([by |-> "generate", s |-> t])
    /\ UNCHANGED pout
    /\ UNCHANGED <<dbVars, provider, publishVars, memoVars, workerVars, subscribeVars, emailVars,
                   adminVars>>

\* parse(s) is applied to the string.
SubscriptionTokenParseApply ==
    /\ pin # Null
    /\ pout = Null
    /\ pout' = Some(SubscriptionTokenParse(pin[1].s))
    /\ UNCHANGED pin
    /\ UNCHANGED <<dbVars, provider, publishVars, memoVars, workerVars, subscribeVars, emailVars,
                   adminVars>>

InitToken ==
    /\ InitDatabaseEmpty
    /\ provider = EmptyBag
    /\ enqueued = {}
    /\ InitPublishIdle
    /\ InitMemoIdle
    /\ InitWorkerIdle
    /\ InitSubscribeIdle
    /\ InitEmailIdle
    /\ InitAdminIdle
    /\ pin \in {Null} \cup {Some([by |-> "caller", s |-> t]) : t \in TokenInputs}
    /\ pout = Null

NextToken ==
    \/ SubscriptionTokenGenerate
    \/ SubscriptionTokenParseApply

SpecToken == InitToken /\ [][NextToken]_vars

\* ------------------------------------------------------------------ subscriber name
\* The strings handed to Name::parse: names of the lengths up to
\* MaxNameLength that are short or close to the longest valid one, made of
\* letters with a forbidden character or a space at either end or not, and
\* with whitespace around them or not; the empty string and strings of
\* whitespace.
Padding == {<< >>, <<" ">>, <<"\t", " ">>}
NameLengths == {n \in 1..MaxNameLength : n <= 3 \/ n >= MAX_SUBSCRIBER_NAME_LENGTH - 3}
NameInputs ==
    Padding \cup
    UNION {{before \o Varied(n, "a", i, d) \o after :
                i \in {1, n}, d \in {"a", "M", " ", "(", "\\", "}"},
                before \in Padding, after \in Padding} :
           n \in NameLengths}

\* parse(s) is applied to the string.
NameParseApply ==
    /\ pin # Null
    /\ pout = Null
    /\ pout' = Some(NameParse(pin[1].s))
    /\ UNCHANGED pin
    /\ UNCHANGED <<dbVars, provider, publishVars, memoVars, workerVars, subscribeVars, emailVars,
                   adminVars>>

InitName ==
    /\ InitDatabaseEmpty
    /\ provider = EmptyBag
    /\ enqueued = {}
    /\ InitPublishIdle
    /\ InitMemoIdle
    /\ InitWorkerIdle
    /\ InitSubscribeIdle
    /\ InitEmailIdle
    /\ InitAdminIdle
    /\ pin \in {Some([by |-> "caller", s |-> t]) : t \in NameInputs}
    /\ pout = Null

NextName == NameParseApply

SpecName == InitName /\ [][NextName]_vars

\* ------------------------------------------------------------------ login, session and password
Passwords == {"pw1", "pw2"}
\* The salt compute_password_hash generates: a fresh one for each request,
\* and the one of the hash the user starts with.
SaltOf(r) == <<"salt", r>>
\* The user of the users table, and a username that is not in it.
AdminUserId == "u1"
AdminUsername == "admin"
UnknownUsername == "ghost"

\* compute_password_hash: the Argon2id hash of the password under the salt, in
\* PHC format, which carries the salt.
ComputePasswordHash(password, salt) ==
    [algorithm |-> "argon2id", salt |-> salt, hash |-> <<"argon2id", salt, password>>]

\* verify_password_hash: hash the candidate under the salt of the expected
\* hash and compare.
VerifyPasswordHash(expected_password_hash, password_candidate) ==
    ComputePasswordHash(password_candidate, expected_password_hash.salt) = expected_password_hash

\* The fallback hash of validate_credentials: the hash of a password nobody submits.
FallbackPasswordHash == ComputePasswordHash("fallback", "gZiV")

UserRow(password_hash) ==
    [user_id |-> AdminUserId, username |-> AdminUsername, password_hash |-> password_hash]

\* get_stored_credentials: SELECT user_id, password_hash FROM users WHERE username = $1
GetStoredCredentials(username) ==
    LET rows == {u \in users : u.username = username}
    IN  IF rows = {} THEN Null ELSE Some(CHOOSE u \in rows : TRUE)

\* validate_credentials: the hash the password is verified against (the stored
\* one, or the fallback for an unknown username) and the result: Ok(user_id)
\* when the hash verifies and the username is known.
ValidateCredentials(username, password) ==
    LET stored == GetStoredCredentials(username)
        expected_password_hash ==
            IF stored # Null THEN stored[1].password_hash ELSE FallbackPasswordHash
    IN  [expected |-> expected_password_hash,
         user_id |-> IF VerifyPasswordHash(expected_password_hash, password) /\ stored # Null
                     THEN Some(stored[1].user_id)
                     ELSE Null]

\* TypedSession::logout: the session holds no user id afterwards.
SessionLogout == Null

\* Responses of /login and of the admin routes, with the flash message set.
RedirectToAdminDashboard ==
    [status |-> 303, headers |-> << <<"location", "/admin/dashboard">> >>, body |-> ""]
RedirectToAdminPassword ==
    [status |-> 303, headers |-> << <<"location", "/admin/password">> >>, body |-> ""]
DashboardPage(username) == [status |-> 200, headers |-> << >>, body |-> <<"Welcome", username>>]
PasswordPage == [status |-> 200, headers |-> << >>, body |-> "Change password"]
AdminResult(response, flash) == Some([response |-> response, flash |-> flash])

LoginForms ==
    {[username |-> AdminUsername, password |-> p] : p \in Passwords}
        \cup {[username |-> UnknownUsername, password |-> "pw1"]}
\* Forms of POST /admin/password: a change from each password to the other
\* one, a change to the same password, and two new passwords that differ.
ChangePasswordForm(current_password, new_password, new_password_check) ==
    [current_password |-> current_password, new_password |-> new_password,
     new_password_check |-> new_password_check]
ChangePasswordForms ==
    {ChangePasswordForm("pw1", "pw2", "pw2"), ChangePasswordForm("pw2", "pw1", "pw1"),
     ChangePasswordForm("pw1", "pw1", "pw1"), ChangePasswordForm("pw1", "pw2", "pw1")}
AdminRoutes == {"dashboard", "password_form", "change_password", "logout"}

\* Requests are numbered in the order in which they arrive.
Arrives(r) ==
    /\ apc[r] = "idle"
    /\ \A q \in AdminRequests : q < r => apc[q] # "idle"

\* POST /login arrives with its form.
LoginReceive(r, form) ==
    /\ Arrives(r)
    /\ apc' = [apc EXCEPT ![r] = "validate"]
    /\ akind' = [akind EXCEPT ![r] = "login"]
    /\ aform' = [aform EXCEPT ![r] = Some(form)]
    /\ UNCHANGED <<users, session, auser, aseen, aout>>
    /\ UNCHANGED <<dbVars, provider, publishVars, memoVars, workerVars, subscribeVars, emailVars,
                   parseVars>>

\* login: validate_credentials; an error redirects back to /login.
LoginValidateCredentials(r) ==
    /\ apc[r] = "validate"
    /\ akind[r] = "login"
    /\ LET result == ValidateCredentials(aform[r][1].username, aform[r][1].password)
       IN  /\ aseen' = [aseen EXCEPT ![r] = Some(result.expected)]
           /\ auser' = [auser EXCEPT ![r] = result.user_id]
           /\ IF result.user_id = Null
              THEN /\ apc' = [apc EXCEPT ![r] = "done"]
                   /\ aout' = [aout EXCEPT ![r] =
                                   AdminResult(RedirectToLogin, "Authentication failed")]
              ELSE /\ apc' = [apc EXCEPT ![r] = "insert_user_id"]
                   /\ UNCHANGED aout
    /\ UNCHANGED <<users, session, akind, aform>>
    /\ UNCHANGED <<dbVars, provider, publishVars, memoVars, workerVars, subscribeVars, emailVars,
                   parseVars>>

\* login without session.insert_user_id.
LoginInsertUserIdSkipped(r) ==
    /\ apc[r] = "insert_user_id"
    /\ apc' = [apc EXCEPT ![r] = "done"]
    /\ aout' = [aout EXCEPT ![r] = AdminResult(RedirectToAdminDashboard, "")]
    /\ UNCHANGED <<users, session, akind, aform, auser, aseen>>
    /\ UNCHANGED <<dbVars, provider, publishVars, memoVars, workerVars, subscribeVars, emailVars,
                   parseVars>>

\* login: session.insert_user_id(user_id), then the redirect to the dashboard.
LoginInsertUserId(r) ==
    /\ apc[r] = "insert_user_id"
    /\ session' = auser[r]
    /\ apc' = [apc EXCEPT ![r] = "done"]
    /\ aout' = [aout EXCEPT ![r] = AdminResult(RedirectToAdminDashboard, "")]
    /\ UNCHANGED <<users, akind, aform, auser, aseen>>
    /\ UNCHANGED <<dbVars, provider, publishVars, memoVars, workerVars, subscribeVars, emailVars,
                   parseVars>>

\* A request for an admin route arrives; POST /admin/password carries a form.
AdminReceive(r, route, form) ==
    /\ Arrives(r)
    /\ route = "change_password" <=> form # Null
    /\ apc' = [apc EXCEPT ![r] = "middleware"]
    /\ akind' = [akind EXCEPT ![r] = route]
    /\ aform' = [aform EXCEPT ![r] = form]
    /\ UNCHANGED <<users, session, auser, aseen, aout>>
    /\ UNCHANGED <<dbVars, provider, publishVars, memoVars, workerVars, subscribeVars, emailVars,
                   parseVars>>

\* reject_anonymous_users: a session without user id is redirected to /login,
\* otherwise the request goes on to its handler.
RejectAnonymousUsers(r) ==
    /\ apc[r] = "middleware"
    /\ IF session = Null
       THEN /\ apc' = [apc EXCEPT ![r] = "done"]
            /\ aout' = [aout EXCEPT ![r] = AdminResult(RedirectToLogin, "")]
            /\ UNCHANGED auser
       ELSE /\ apc' = [apc EXCEPT ![r] = "handler"]
            /\ auser' = [auser EXCEPT ![r] = session]
            /\ UNCHANGED aout
    /\ UNCHANGED <<users, session, akind, aform, aseen>>
    /\ UNCHANGED <<dbVars, provider, publishVars, memoVars, workerVars, subscribeVars, emailVars,
                   parseVars>>

\* get_username: SELECT username FROM users WHERE user_id = $1
GetUsername(user_id) == (CHOOSE u \in users : u.user_id = user_id).username

\* admin_dashboard: the page greeting the user of the session.
AdminDashboard(r) ==
    /\ apc[r] = "handler"
    /\ akind[r] = "dashboard"
    /\ apc' = [apc EXCEPT ![r] = "done"]
    /\ auser' = [auser EXCEPT ![r] = session]
    /\ aout' = [aout EXCEPT ![r] =
                    IF session = Null
                    THEN AdminResult(RedirectToLogin, "")
                    ELSE AdminResult(DashboardPage(GetUsername(session[1])), "")]
    /\ UNCHANGED <<users, session, akind, aform, aseen>>
    /\ UNCHANGED <<dbVars, provider, publishVars, memoVars, workerVars, subscribeVars, emailVars,
                   parseVars>>

\* change_password_form: the page with the form.
AdminPasswordForm(r) ==
    /\ apc[r] = "handler"
    /\ akind[r] = "password_form"
    /\ apc' = [apc EXCEPT ![r] = "done"]
    /\ auser' = [auser EXCEPT ![r] = session]
    /\ aout' = [aout EXCEPT ![r] =
                    IF session = Null
                    THEN AdminResult(RedirectToLogin, "")
                    ELSE AdminResult(PasswordPage, "")]
    /\ UNCHANGED <<users, session, akind, aform, aseen>>
    /\ UNCHANGED <<dbVars, provider, publishVars, memoVars, workerVars, subscribeVars, emailVars,
                   parseVars>>

\* admin_logout: without user id the redirect; with one, session.logout(),
\* the flash message and the redirect.
AdminLogout(r) ==
    /\ apc[r] = "handler"
    /\ akind[r] = "logout"
    /\ apc' = [apc EXCEPT ![r] = "done"]
    /\ auser' = [auser EXCEPT ![r] = session]
    /\ IF session = Null
       THEN /\ aout' = [aout EXCEPT ![r] = AdminResult(RedirectToLogin, "")]
            /\ UNCHANGED session
       ELSE /\ session' = SessionLogout
            /\ aout' = [aout EXCEPT ![r] =
                            AdminResult(RedirectToLogin, "You have successfully logged out")]
    /\ UNCHANGED <<users, akind, aform, aseen>>
    /\ UNCHANGED <<dbVars, provider, publishVars, memoVars, workerVars, subscribeVars, emailVars,
                   parseVars>>

\* change_password: the user id of the session (NotLoggedIn without one),
\* then the comparison of the two new passwords (DifferentNewPasswords).
ChangePasswordCheck(r) ==
    /\ apc[r] = "handler"
    /\ akind[r] = "change_password"
    /\ auser' = [auser EXCEPT ![r] = session]
    /\ IF session = Null
       THEN /\ apc' = [apc EXCEPT ![r] = "done"]
            /\ aout' = [aout EXCEPT ![r] = AdminResult(RedirectToLogin, "")]
       ELSE IF aform[r][1].new_password # aform[r][1].new_password_check
       THEN /\ apc' = [apc EXCEPT ![r] = "done"]
            /\ aout' = [aout EXCEPT ![r] =
                            AdminResult(RedirectToAdminPassword,
                                        "You entered two different new passwords")]
       ELSE /\ apc' = [apc EXCEPT ![r] = "validate"]
            /\ UNCHANGED aout
    /\ UNCHANGED <<users, session, akind, aform, aseen>>
    /\ UNCHANGED <<dbVars, provider, publishVars, memoVars, workerVars, subscribeVars, emailVars,
                   parseVars>>

\* change_password without the validation of the current password.
ChangePasswordValidateAny(r) ==
    /\ apc[r] = "validate"
    /\ akind[r] = "change_password"
    /\ aseen' = [aseen EXCEPT ![r] = Some((CHOOSE u \in users : TRUE).password_hash)]
    /\ apc' = [apc EXCEPT ![r] = "update"]
    /\ UNCHANGED <<users, session, akind, aform, auser, aout>>
    /\ UNCHANGED <<dbVars, provider, publishVars, memoVars, workerVars, subscribeVars, emailVars,
                   parseVars>>

\* change_password: get_username and validate_credentials with the current
\* password (IncorrectPassword when it does not verify).
ChangePasswordValidate(r) ==
    /\ apc[r] = "validate"
    /\ akind[r] = "change_password"
    /\ LET result == ValidateCredentials(GetUsername(auser[r][1]), aform[r][1].current_password)
       IN  /\ aseen' = [aseen EXCEPT ![r] = Some(result.expected)]
           /\ IF result.user_id = Null
              THEN /\ apc' = [apc EXCEPT ![r] = "done"]
                   /\ aout' = [aout EXCEPT ![r] =
                                   AdminResult(RedirectToAdminPassword,
                                               "The current password is incorrect")]
              ELSE /\ apc' = [apc EXCEPT ![r] = "update"]
                   /\ UNCHANGED aout
    /\ UNCHANGED <<users, session, akind, aform, auser>>
    /\ UNCHANGED <<dbVars, provider, publishVars, memoVars, workerVars, subscribeVars, emailVars,
                   parseVars>>

\* authentication::change_password: hash the new password under a new salt,
\* UPDATE users SET password_hash = $1 WHERE user_id = $2; then the redirect
\* with the success message.
ChangePasswordUpdate(r) ==
    /\ apc[r] = "update"
    /\ users' = {IF u.user_id = auser[r][1]
                 THEN [u EXCEPT !.password_hash =
                           ComputePasswordHash(aform[r][1].new_password, SaltOf(r))]
                 ELSE u : u \in users}
    /\ apc' = [apc EXCEPT ![r] = "done"]
    /\ aout' = [aout EXCEPT ![r] =
                    AdminResult(RedirectToAdminPassword, "Your password has been changed")]
    /\ UNCHANGED <<session, akind, aform, auser, aseen>>
    /\ UNCHANGED <<dbVars, provider, publishVars, memoVars, workerVars, subscribeVars, emailVars,
                   parseVars>>

\* One user, whose password is pw1; no session yet.
InitAdmin ==
    /\ InitDatabaseEmpty
    /\ provider = EmptyBag
    /\ enqueued = {}
    /\ InitPublishIdle
    /\ InitMemoIdle
    /\ InitWorkerIdle
    /\ InitSubscribeIdle
    /\ InitEmailIdle
    /\ InitParseIdle
    /\ users = {UserRow(ComputePasswordHash("pw1", SaltOf(0)))}
    /\ session = Null
    /\ apc = [r \in AdminRequests |-> "idle"]
    /\ akind = [r \in AdminRequests |-> "none"]
    /\ aform = [r \in AdminRequests |-> Null]
    /\ auser = [r \in AdminRequests |-> Null]
    /\ aseen = [r \in AdminRequests |-> Null]
    /\ aout = [r \in AdminRequests |-> Null]

NextAdmin ==
    \/ \E r \in AdminRequests, form \in LoginForms : LoginReceive(r, form)
    \/ \E r \in AdminRequests : LoginValidateCredentials(r)
    \/ \E r \in AdminRequests : LoginInsertUserId(r)
    \/ \E r \in AdminRequests, route \in AdminRoutes \ {"change_password"} :
           AdminReceive(r, route, Null)
    \/ \E r \in AdminRequests, form \in ChangePasswordForms :
           AdminReceive(r, "change_password", Some(form))
    \/ \E r \in AdminRequests : RejectAnonymousUsers(r)
    \/ \E r \in AdminRequests : AdminDashboard(r)
    \/ \E r \in AdminRequests : AdminPasswordForm(r)
    \/ \E r \in AdminRequests : AdminLogout(r)
    \/ \E r \in AdminRequests : ChangePasswordCheck(r)
    \/ \E r \in AdminRequests : ChangePasswordValidate(r)
    \/ \E r \in AdminRequests : ChangePasswordUpdate(r)

SpecAdmin == InitAdmin /\ [][NextAdmin]_vars

\* ------------------------------------------------------------------ claims on the idempotency API
SameRequest(c, d) == cuser[c] = cuser[d] /\ ckey[c] = ckey[d]

\* C4: once save_response has committed a response for (user id, key), the
\* stored status, headers and body never change and every later lookup for
\* the pair returns exactly that response.
C4_MemoStable ==
    \A p \in Users \X Keys :
        first_saved[p] # Null =>
            /\ GetSavedResponse(idempotency, p[2], p[1])
                  = {[kind |-> "some", response |-> first_saved[p]]}
            /\ \A c \in Callers :
                  (cpc[c] = "ReturnSavedResponse" /\ <<cuser[c], ckey[c]>> = p)
                      => cout[c] = first_saved[p]

\* A response was committed, replayed to a second caller, and the same user
\* committed another key afterwards.
C4_Witness ==
    \E c, d, e \in Callers :
        /\ cpc[c] = "Saved" /\ cpc[d] = "ReturnSavedResponse" /\ cpc[e] = "Saved"
        /\ SameRequest(c, d)
        /\ cuser[e] = cuser[c] /\ ckey[e] # ckey[c]
        /\ cout[e] # cout[c]

\* C6: a request that fails after try_processing and before save_response
\* commits leaves no idempotency record (no issue or task row either), and a
\* later request with the same (user id, key) is a first submission: it is
\* never answered with a replay or an error, and it does not wait.
C6_FailedRequestLeavesNothing ==
    /\ \A c \in Callers :
          cpc[c] = "Dropped" => ~\E row \in idempotency : row.xmin = CallerXid(c)
    /\ \A c \in Callers :
          cpc[c] \in {"ReturnSavedResponse", "Err"}
              => \E d \in Callers \ {c} : cpc[d] = "Saved" /\ SameRequest(c, d)
    /\ \A p \in Users \X Keys :
          (\A d \in Callers : <<cuser[d], ckey[d]>> = p => cpc[d] \in {"idle", "Dropped"})
              => /\ ~InsertWaits(idempotency, 0, p[1], p[2])
                 /\ InsertIdempotencyRow(idempotency, 0, p[1], p[2]) # idempotency
    /\ newsletter_issues = {} /\ issue_delivery_queue = {}

\* A request failed and a later one with the same (user id, key) started
\* processing.
C6_Witness ==
    \E c, d \in Callers :
        /\ c # d /\ SameRequest(c, d)
        /\ cpc[c] = "Dropped" /\ cpc[d] = "StartProcessing"

\* C7: keys are scoped per user. Every row of (B, K) was inserted by a call of
\* B with K, the response stored for (B, K) is one B saved with K, B's call is
\* never made to wait by another user's row, and the first call of B with K
\* gets StartProcessing whatever other users did with K.
C7_KeysScopedPerUser ==
    /\ \A row \in idempotency :
          \E c \in Callers :
              /\ row.xmin = CallerXid(c)
              /\ row.user_id = cuser[c] /\ row.idempotency_key = ckey[c]
    /\ \A p \in Users \X Keys :
          \A saved \in GetSavedResponse(idempotency, p[2], p[1]) :
              saved.kind # "none" =>
                  \E c \in Callers :
                      /\ cpc[c] = "Saved" /\ <<cuser[c], ckey[c]>> = p
                      /\ saved = [kind |-> "some", response |-> cout[c]]
    /\ \A p \in Users \X Keys :
          InsertWaits(idempotency, 0, p[1], p[2])
              => \E c \in Callers : cpc[c] = "StartProcessing" /\ <<cuser[c], ckey[c]>> = p
    /\ \A c \in Callers :
          (/\ cpc[c] # "idle"
           /\ \A d \in Callers \ {c} : cpc[d] = "idle" \/ ~SameRequest(c, d))
              => cpc[c] \in {"StartProcessing", "Saved", "Dropped"}

\* User A committed a response under K, then user B used the same K and was
\* started, and committed a different response.
C7_Witness ==
    \E c, d \in Callers :
        /\ cuser[c] # cuser[d] /\ ckey[c] = ckey[d]
        /\ cpc[c] = "Saved" /\ cpc[d] = "Saved"
        /\ cout[c] # cout[d]

\* C8: at most one idempotency row per (user id, key) in every reachable
\* state, in a transaction or committed.
C8_AtMostOneRow ==
    \A p \in Users \X Keys :
        Cardinality({row \in idempotency : IdempotencyPrimaryKey(row) = p}) <= 1

\* Three calls for the same pair: one dropped, one committed, one replayed.
C8_Witness ==
    \E c, d, e \in Callers :
        /\ SameRequest(c, d) /\ SameRequest(d, e)
        /\ cpc[c] = "Dropped" /\ cpc[d] = "Saved" /\ cpc[e] = "ReturnSavedResponse"
        /\ \E row \in idempotency : IdempotencyPrimaryKey(row) = <<cuser[c], ckey[c]>>


\* ------------------------------------------------------------------ claims on the publish path
ConfirmedCount == Cardinality({row \in subscriptions : row.status = Confirmed})

\* Requests that got past the saved-response lookup and ran publish_newsletter.
DidDomainWork(r) ==
    rpc[r] \in {"get_confirmed_subscribers", "send_email", "save_response", "published"}
        \/ \E m \in DOMAIN provider : m.by = "publish" /\ m.req = r

Finished(r) == rpc[r] \in {"published", "replayed", "failed"}

\* C2: of the publish requests carrying one (user id, key), exactly one does
\* the domain work, all return the same status and body, and the provider is
\* invoked at most N times for N confirmed subscribers.
C2_ConcurrentPublishOnce ==
    \A user_id \in Users, idempotency_key \in Keys :
        LET same == {r \in Requests : /\ rpc[r] \notin {"idle", "rejected"}
                                      /\ ruser[r] = user_id /\ rkey[r] = idempotency_key}
            sentFor == {m \in DOMAIN provider : m.by = "publish" /\ m.req \in same}
        IN  /\ Cardinality({r \in same : DidDomainWork(r)}) <= 1
            /\ CountRequests(sentFor) <= ConfirmedCount
            /\ \A r, q \in same :
                  (rpc[r] \in {"published", "replayed"} /\ rpc[q] \in {"published", "replayed"})
                      => /\ rresp[r][1].status = rresp[q][1].status
                         /\ rresp[r][1].body = rresp[q][1].body

\* C3: after a publish request with key K by user U has completed, a later
\* request of U with K creates no issue row and no delivery task, triggers no
\* email and returns the first response.
C3_RetryIsIdempotent ==
    \A r \in Requests :
        rprior[r] # {} =>
            /\ ~\E m \in DOMAIN provider : m.by = "publish" /\ m.req = r
            /\ ~DidDomainWork(r)
            /\ Finished(r) => \A q \in rprior[r] : rresp[r] = rresp[q]

C9_PublishNeverSends ==
    \A m \in DOMAIN provider : m.by # "publish"

\* C10: every successful first publish request has produced exactly one issue
\* row and one delivery task per confirmed subscriber.
C10_IssueAndTasksPerPublish ==
    LET published == {r \in Requests : rpc[r] = "published"}
    IN  /\ Cardinality(newsletter_issues) = Cardinality(published)
        /\ Cardinality(issue_delivery_queue) = Cardinality(published) * ConfirmedCount


\* ------------------------------------------------------------------ claims on delivery
SuccessfulSends(task) ==
    CountRequests({ProviderRequest("worker", 0, task.newsletter_issue_id, task.subscriber_email, TRUE)})

FailedSends(task) ==
    CountRequests({ProviderRequest("worker", 0, task.newsletter_issue_id, task.subscriber_email, FALSE)})

AbortedIterations(task) == CopiesIn(task, aborted)

C21_NoTaskHeldTwice ==
    \A w, v \in Workers : (w # v /\ wtask[w] # Null) => wtask[v] # wtask[w]

\* One worker holds the only task of the queue in its open transaction, and
\* the dequeue of another worker returned EmptyQueue.
C21_Witness ==
    \E w, v \in Workers :
        /\ w # v
        /\ wtask[w] # Null /\ issue_delivery_queue = {wtask[w][1]}
        /\ wpc[v] = "idle" /\ woutcome[v] = "EmptyQueue"

\* The tasks put in the queue whose email parses, and the requests the
\* provider received for the tasks of the queue.
ValidTasks == {task \in enqueued : EmailParse(task.subscriber_email).ok}
WorkerRequests ==
    {ProviderRequest("worker", 0, task.newsletter_issue_id, task.subscriber_email, ok) :
        task \in enqueued, ok \in BOOLEAN}

\* C22: with a provider that answers 200 and no database failure, the queue
\* is eventually empty for good, and from then on the provider has received
\* one request per task with a valid email, each for another task.
C22_QueueDrained ==
    <>[](/\ issue_delivery_queue = {}
         /\ \A task \in ValidTasks : SuccessfulSends(task) = 1
         /\ CountRequests(WorkerRequests) = Cardinality(ValidTasks))

\* A queue of two valid tasks was emptied with two requests to the provider.
C22_Witness ==
    /\ Cardinality(ValidTasks) = 2 /\ enqueued = ValidTasks
    /\ issue_delivery_queue = {}
    /\ CountRequests(WorkerRequests) = 2
    /\ \A w \in Workers : wpc[w] = "idle"

\* Worker w takes a step of its iteration that is not a database failure or
\* a crash.
WorkerAdvances(w) == wpc'[w] # wpc[w] /\ faults' = faults

\* C23: a worker that dequeued a task whose email does not parse goes to
\* delete_task without a request to the provider, its delete_task removes the
\* task and reports TaskCompleted, and the provider never receives a request
\* for an email that does not parse.
C23_InvalidEmailTaskDropped ==
    [][/\ \A w \in Workers :
             (wtask[w] # Null /\ ~EmailParse(wtask[w][1].subscriber_email).ok
                 /\ WorkerAdvances(w)) =>
                 /\ provider' = provider
                 /\ wpc[w] = "dequeued" => (wpc'[w] = "delete_task" /\ wtask'[w] = wtask[w])
                 /\ wpc[w] = "delete_task" =>
                        /\ issue_delivery_queue' = issue_delivery_queue \ {wtask[w][1]}
                        /\ woutcome'[w] = "TaskCompleted"
       /\ \A m \in DOMAIN provider' : EmailParse(m.to).ok]_vars

\* The task with the email that does not parse has left the queue, no
\* request was made for it, and the iteration reported TaskCompleted.
C23_Witness ==
    \E task \in enqueued \ issue_delivery_queue :
        /\ ~EmailParse(task.subscriber_email).ok
        /\ \A m \in DOMAIN provider : m.to # task.subscriber_email
        /\ \E w \in Workers : woutcome[w] = "TaskCompleted" /\ wpc[w] = "idle"
        /\ faults = 0

\* The requests the provider received for a task.
SendAttempts(task) == SuccessfulSends(task) + FailedSends(task)

\* C24 as stated: the provider is invoked at most once per task, and a task
\* whose send failed is never sent again.
C24_FailedSendNeverRetried ==
    \A task \in enqueued :
        /\ SendAttempts(task) <= 1
        /\ FailedSends(task) >= 1 => SendAttempts(task) = 1

\* C24, amended: after a transport error the worker's delete_task removes the
\* task and reports TaskCompleted; a task is sent once more only for each
\* iteration aborted after its send, so a task whose send failed in an
\* iteration that committed is never sent again.
C24_FailedSendDeletedOnCommit ==
    /\ [](\A task \in enqueued :
             /\ SendAttempts(task) <= 1 + AbortedIterations(task)
             /\ (FailedSends(task) >= 1 /\ AbortedIterations(task) = 0) =>
                    SendAttempts(task) = 1
             /\ (FailedSends(task) >= 1 /\ AbortedIterations(task) = 0
                    /\ task \in issue_delivery_queue) =>
                    \E w \in Workers : wtask[w] = Some(task) /\ wpc[w] = "delete_task")
    /\ [][\A w \in Workers :
             (wpc[w] = "delete_task" /\ WorkerAdvances(w) /\ FailedSends(wtask[w][1]) >= 1) =>
                 /\ issue_delivery_queue' = issue_delivery_queue \ {wtask[w][1]}
                 /\ woutcome'[w] = "TaskCompleted"
                 /\ provider' = provider]_vars

\* A task whose only send met a transport error has left the queue, and a
\* worker found the queue empty afterwards.
C24_Witness ==
    \E task \in enqueued \ issue_delivery_queue :
        /\ FailedSends(task) = 1 /\ SuccessfulSends(task) = 0
        /\ AbortedIterations(task) = 0
        /\ issue_delivery_queue = {}
        /\ \E w \in Workers : woutcome[w] = "EmptyQueue"

\* The sends for a task made by an iteration that is still open.
OpenSends(task) ==
    Cardinality({w \in Workers : wtask[w] = Some(task) /\ wsent[w]})

\* C25 as stated: a task with a valid email that no worker holds is in the
\* queue exactly when it has had no successful send.
C25_TaskIffUndelivered ==
    \A task \in ValidTasks \ Locked :
        task \in issue_delivery_queue <=> SuccessfulSends(task) = 0

\* C25, amended: the worker adds no task; a task in the queue has been sent
\* only by iterations that were aborted or are still open; a task with a
\* valid email that has left the queue was sent by a committed iteration,
\* successfully or not, and one whose email does not parse was never sent.
C25_TaskUntilCommittedAttempt ==
    /\ issue_delivery_queue \subseteq enqueued
    /\ \A task \in enqueued :
           /\ task \in issue_delivery_queue =>
                  SendAttempts(task) = AbortedIterations(task) + OpenSends(task)
           /\ (task \notin issue_delivery_queue /\ task \in ValidTasks) =>
                  SendAttempts(task) = AbortedIterations(task) + 1
           /\ task \notin ValidTasks => SendAttempts(task) = 0

\* One task left the queue after a send that failed, one after a send that
\* succeeded, and the task whose email does not parse is still queued.
C25_Witness ==
    \E t1, t2 \in ValidTasks \ issue_delivery_queue :
        /\ SuccessfulSends(t1) = 0 /\ FailedSends(t1) = 1
        /\ SuccessfulSends(t2) = 1 /\ FailedSends(t2) = 0
        /\ \E t3 \in issue_delivery_queue : t3 \notin ValidTasks
        /\ aborted = EmptyBag

\* ------------------------------------------------------------------ subscribers and publishing
\* The number of copies of message m the provider received.
Received(m, bag) == IF m \in DOMAIN bag THEN bag[m] ELSE 0

\* The publish messages request r caused.
PublishMessages(r) == {m \in DOMAIN provider : m.by = "publish" /\ m.req = r}

\* C11: every newsletter email and every delivery task is for the email of a
\* confirmed subscriber, and a publish request that found only unconfirmed
\* subscribers sends nothing.
C11_OnlyConfirmedReceive ==
    LET confirmed == {row.email : row \in {x \in subscriptions : x.status = Confirmed}}
    IN  /\ \A m \in DOMAIN provider : m.by = "publish" => m.to \in confirmed
        /\ \A t \in issue_delivery_queue : t.subscriber_email \in confirmed
        /\ \A r \in Requests : confirmed = {} => PublishMessages(r) = {}

\* A publish request succeeded while every subscriber was unconfirmed, and
\* no email was sent.
C11_Witness ==
    /\ subscriptions # {}
    /\ \A row \in subscriptions : row.status = PendingConfirmation
    /\ \E r \in Requests : rpc[r] = "published" /\ rresp[r] = Some(RedirectToAdminNewsletters)
    /\ provider = EmptyBag

\* C12: a publish request without an authenticated session is answered with a
\* 303 to /login by a step that leaves every table and the provider
\* unchanged, and nothing is written or sent for it afterwards.
C12_AnonymousPublishRejected ==
    [][\A r \in Requests :
          /\ (rpc[r] = "idle" /\ rpc'[r] = "rejected") =>
                 /\ rresp'[r] = Some([status |-> 303,
                                      headers |-> << <<"location", "/login">> >>,
                                      body |-> ""])
                 /\ UNCHANGED <<dbVars, provider>>
          /\ rpc[r] = "rejected" =>
                 /\ rpc'[r] = "rejected" /\ rresp'[r] = rresp[r]
                 /\ \A m \in DOMAIN provider' :
                        (m.by = "publish" /\ m.req = r) => Received(m, provider) = provider'[m]
                 /\ \A row \in idempotency' \ idempotency : row.xmin # r]_vars

\* One request was rejected and another one published to a confirmed
\* subscriber.
C12_Witness ==
    \E r, q \in Requests :
        /\ rpc[r] = "rejected" /\ rresp[r] = Some(RedirectToLogin)
        /\ PublishMessages(r) = {}
        /\ rpc[q] = "published" /\ PublishMessages(q) # {}

\* ------------------------------------------------------------------ subscribing
\* The rows of subscriptions with one email, and the token rows of one subscriber.
SubscribersWithEmail(email) == {row \in subscriptions : row.email = email}
TokensOf(subscriber_id) == {t \in subscription_tokens : t.subscriber_id = subscriber_id}

\* The confirmation emails request s caused.
ConfirmationEmails(s) == {m \in DOMAIN provider : m.by = "subscribe" /\ m.req = s}

\* The subscribe requests that found no subscriber and returned Ok, and those
\* that found a pending subscriber.
SubscribedAnew(s) == spc[s] = "done" /\ sout[s] = "Ok" /\ sfound[s] = Null
SubscribedAgain(s) == spc[s] # "idle" /\ sfound[s] # Null

C14_ResubscribeSameToken ==
    /\ \A s \in SubscribeRequests :
           SubscribedAgain(s) =>
               /\ \A row \in subscriptions : row.id # NewSubscriberId(s)
               /\ TokensOf(NewSubscriberId(s)) = {}
               /\ \E row \in subscriptions :
                      /\ row.id = sfound[s][1].id
                      /\ row.name = sfound[s][1].name /\ row.email = semail[s]
               /\ \A m \in ConfirmationEmails(s) :
                      /\ m.to = semail[s]
                      /\ m.name = sfound[s][1].name
                      /\ TokensOf(sfound[s][1].id) =
                             {TokenRow(m.link.subscription_token, sfound[s][1].id)}
               /\ (spc[s] = "done" /\ sout[s] = "Ok") => ConfirmationEmails(s) # {}
    /\ \A m1, m2 \in DOMAIN provider :
           (m1.by = "subscribe" /\ m2.by = "subscribe" /\ m1.to = m2.to) => m1.link = m2.link

\* A second request with another name for a pending subscriber's email
\* returned Ok: both emails were delivered with the same link and the first
\* name, and there is still one row and one token.
C14_Witness ==
    \E s, t \in SubscribeRequests :
        /\ SubscribedAnew(s) /\ SubscribedAgain(t) /\ sout[t] = "Ok"
        /\ semail[s] = semail[t] /\ sname[s] # sname[t]
        /\ \E m1 \in ConfirmationEmails(s), m2 \in ConfirmationEmails(t) :
               m1.ok /\ m2.ok /\ m1.link = m2.link /\ m2.name = sname[s]
        /\ Cardinality(subscriptions) = 1 /\ Cardinality(subscription_tokens) = 1

\* C15: a subscribe request for the email of a confirmed subscriber ends with
\* AlreadyConfirmed (409) in the step that looked the subscriber up, a step
\* that writes and sends nothing; the request never sends an email and the
\* subscriber stays confirmed.
C15_SubscribeAlreadyConfirmed ==
    [][\A s \in SubscribeRequests :
          /\ (spc[s] = "idle" /\ spc'[s] # "idle"
                 /\ NameParse(sname'[s]).ok /\ EmailParse(semail'[s]).ok
                 /\ \E row \in SubscribersWithEmail(semail'[s]) : row.status = Confirmed) =>
                 /\ spc'[s] = "done" /\ sout'[s] = "AlreadyConfirmed"
                 /\ SubscribeStatusCode(sout'[s]) = 409
                 /\ UNCHANGED <<subscriptions, subscription_tokens, provider>>
          /\ sout[s] = "AlreadyConfirmed" =>
                 /\ spc'[s] = "done" /\ sout'[s] = "AlreadyConfirmed"
                 /\ \A m \in DOMAIN provider' : (m.by = "subscribe" /\ m.req = s) => FALSE
                 /\ \A row \in SubscribersWithEmail(semail[s]) : row \in subscriptions']_vars

\* A request subscribed an email after a confirm request had confirmed its
\* subscriber.
C15_Witness ==
    \E s \in SubscribeRequests :
        /\ sout[s] = "AlreadyConfirmed"
        /\ \E row \in SubscribersWithEmail(semail[s]) : row.status = Confirmed
        /\ \E q \in ConfirmRequests : qout[q] = "Ok"
        /\ ConfirmationEmails(s) = {}

\* C16: a subscribe request whose name or email does not parse ends with
\* FormValidationError in its first step, before a transaction is begun: the
\* step writes no row and sends nothing, and the request never writes or sends.
C16_InvalidFormRejected ==
    [][\A s \in SubscribeRequests :
          /\ (spc[s] = "idle" /\ spc'[s] # "idle"
                 /\ ~(NameParse(sname'[s]).ok /\ EmailParse(semail'[s]).ok)) =>
                 /\ spc'[s] = "done" /\ sout'[s] = "FormValidationError"
                 /\ SubscribeStatusCode(sout'[s]) = 422
                 /\ swrites'[s] = Null
                 /\ UNCHANGED <<subscriptions, subscription_tokens, provider>>
          /\ sout[s] = "FormValidationError" =>
                 /\ spc'[s] = "done" /\ sout'[s] = "FormValidationError" /\ swrites'[s] = Null
                 /\ \A m \in DOMAIN provider' : (m.by = "subscribe" /\ m.req = s) => FALSE
                 /\ \A row \in subscriptions' : row.id # NewSubscriberId(s)]_vars

\* One request with a blank name and one with an invalid email were
\* rejected, and the tables and the provider are as they started.
C16_Witness ==
    \E s, t \in SubscribeRequests :
        /\ sout[s] = "FormValidationError" /\ ~NameParse(sname[s]).ok
        /\ sout[t] = "FormValidationError" /\ ~EmailParse(semail[t]).ok
        /\ subscriptions = {} /\ subscription_tokens = {} /\ provider = EmptyBag

\* ------------------------------------------------------------------ confirming
\* The status of the subscriber with an id in a table (one row at most).
StatusOf(rows, id) == {row.status : row \in {x \in rows : x.id = id}}

\* C17: a confirm request that read the status of a pending subscriber ends
\* with Ok unless a query of its own fails; the step that ends a request with
\* Ok leaves the subscriber its token belongs to confirmed and no other row
\* changed; a confirm request
\* that arrived after a successful one with the same token changes nothing,
\* never returns Ok, and ends with AlreadyConfirmed (409) unless a query of
\* its own failed.
C17_ConfirmOnceThenConflict ==
    [][\A q \in ConfirmRequests :
          /\ (qpc[q] = "get_subscriber_status" /\ qpc'[q] # qpc[q] /\ faults' = faults
                 /\ StatusOf(subscriptions, qid[q][1]) = {PendingConfirmation}) =>
                 qpc'[q] = "confirm_subscriber"
          /\ (qpc[q] = "confirm_subscriber" /\ qpc'[q] # qpc[q] /\ faults' = faults) =>
                 qout'[q] = "Ok"
          /\ (qout[q] # "Ok" /\ qout'[q] = "Ok") =>
                 /\ StatusOf(subscriptions', qid[q][1]) = {Confirmed}
                 /\ TokenRow(qtoken[q], qid[q][1]) \in subscription_tokens
                 /\ \A row \in subscriptions : row.id # qid[q][1] => row \in subscriptions'
                 /\ ConfirmStatusCode(qout'[q]) = 200
          /\ (qprior'[q] # {} /\ <<qpc[q], qout[q]>> # <<qpc'[q], qout'[q]>>) =>
                 /\ UNCHANGED <<subscriptions, subscription_tokens, provider>>
                 /\ qpc'[q] \in {"get_subscriber_status", "done"}
                 /\ qpc'[q] = "done" =>
                        /\ qout'[q] \in {"AlreadyConfirmed", "UnexpectedError"}
                        /\ qout'[q] = "UnexpectedError" => faults' = faults + 1
                        /\ qout'[q] = "AlreadyConfirmed" => ConfirmStatusCode(qout'[q]) = 409]_vars

\* A confirm request succeeded for a pending subscriber, and a later one with
\* the same token ended with AlreadyConfirmed.
C17_Witness ==
    \E p, q \in ConfirmRequests :
        /\ qout[p] = "Ok" /\ p \in qprior[q] /\ qtoken[p] = qtoken[q]
        /\ qpc[q] = "done" /\ qout[q] = "AlreadyConfirmed"
        /\ StatusOf(subscriptions, qid[p][1]) = {Confirmed}

\* A token of TOKEN_LENGTH alphanumeric characters.
WellFormed(subscription_token) ==
    /\ Len(subscription_token) = 25
    /\ \A i \in 1..Len(subscription_token) : subscription_token[i] \in Alphanumeric

\* C18: a confirm request with a malformed token ends in its first step with
\* TokenValidationError, one with a well-formed token that is not stored with
\* TokenNotFound; the two kinds differ, both map to 401, the step changes no
\* table, and such a request never changes one afterwards.
C18_BadTokenRejected ==
    [][\A q \in ConfirmRequests :
          /\ (qpc[q] = "idle" /\ qpc'[q] # "idle" /\ ~WellFormed(qtoken'[q])) =>
                 /\ qpc'[q] = "done" /\ qout'[q] = "TokenValidationError" /\ qid'[q] = Null
                 /\ ConfirmStatusCode(qout'[q]) = 401
                 /\ UNCHANGED <<subscriptions, subscription_tokens, provider>>
          /\ (qpc[q] = "idle" /\ qpc'[q] # "idle" /\ WellFormed(qtoken'[q])
                 /\ \A t \in subscription_tokens : t.subscription_token # qtoken'[q]) =>
                 /\ qpc'[q] = "done" /\ qout'[q] = "TokenNotFound" /\ qid'[q] = Null
                 /\ ConfirmStatusCode(qout'[q]) = 401
                 /\ UNCHANGED <<subscriptions, subscription_tokens, provider>>
          /\ qout[q] \in {"TokenValidationError", "TokenNotFound"} =>
                 /\ qpc'[q] = "done" /\ qout'[q] = qout[q] /\ qid'[q] = Null]_vars

\* A truncated token, one with a character that is not alphanumeric and an
\* unknown one were each rejected while a pending subscriber stayed pending.
C18_Witness ==
    \E p, q \in ConfirmRequests :
        /\ qout[p] = "TokenValidationError" /\ qout[q] = "TokenNotFound"
        /\ qtoken[q] = Token("Z")
        /\ \E row \in subscriptions : row.status = PendingConfirmation

\* C19: every step keeps each subscriber row, with the same status or with
\* pending_confirmation turned into confirmed, and a row it adds is pending.
C19_StatusMonotonic ==
    [][/\ \A row \in subscriptions :
             /\ StatusOf(subscriptions', row.id) \in {{row.status}, {Confirmed}}
             /\ \E next \in subscriptions' :
                    next.id = row.id /\ next.email = row.email /\ next.name = row.name
       /\ \A next \in subscriptions' :
             StatusOf(subscriptions, next.id) = {} => next.status = PendingConfirmation]_vars

\* A subscriber was inserted pending and then confirmed, and a later
\* subscribe and a later confirm for it both ended with AlreadyConfirmed.
C19_Witness ==
    /\ \E row \in subscriptions : row.status = Confirmed
    /\ \E s \in SubscribeRequests : sout[s] = "AlreadyConfirmed"
    /\ \E q \in ConfirmRequests : qout[q] = "AlreadyConfirmed"

\* C20: every subscriber row has a token row, and a subscribe request that
\* inserted a subscriber has a row in the table exactly when its token was
\* stored and the transaction committed; one that failed before that left
\* no row.
C20_SubscriberHasToken ==
    /\ \A row \in subscriptions : TokensOf(row.id) # {}
    /\ \A t \in subscription_tokens : StatusOf(subscriptions, t.subscriber_id) # {}
    /\ \A s \in SubscribeRequests :
           /\ StatusOf(subscriptions, NewSubscriberId(s)) # {} =>
                  (stoken[s] # Null /\ sfound[s] = Null)
           /\ (spc[s] = "done" /\ sfound[s] = Null /\ stoken[s] = Null) =>
                  /\ sout[s] # "Ok"
                  /\ StatusOf(subscriptions, NewSubscriberId(s)) = {}
                  /\ TokensOf(NewSubscriberId(s)) = {}

\* A subscribe request failed on a database error after it had looked the
\* email up, leaving no row, and a later one stored the subscriber, who was
\* then confirmed and has a token.
C20_Witness ==
    \E s, t \in SubscribeRequests :
        /\ spc[s] = "done" /\ sfound[s] = Null /\ stoken[s] = Null
        /\ sout[s] = "UnexpectedError" /\ faults = 1
        /\ StatusOf(subscriptions, NewSubscriberId(s)) = {}
        /\ StatusOf(subscriptions, NewSubscriberId(t)) = {Confirmed}
        /\ TokensOf(NewSubscriberId(t)) # {}

\* ------------------------------------------------------------------ claims on the email client
\* C26: a finished call of send_email has issued exactly one POST, and it
\* returned Ok exactly when a response with a 2xx status arrived within the
\* timeout: a response with any other status, and no response in time, make
\* it return the transport error.
C26_SendEmailOkIff2xx ==
    \A c \in Calls :
        epc[c] = "done" =>
            /\ eposts[c] = 1
            /\ eresult[c] = "Ok" <=> eresp[c] \in 200..299

\* ------------------------------------------------------------------ claims on the subscription token
\* C27: SubscriptionToken::parse accepts a string exactly when it has 25
\* characters and each of them is one of a-z, A-Z, 0-9, and it accepts every
\* token that SubscriptionToken::generate produced.
C27_ParseAcceptsExactlyAsciiTokens ==
    pout # Null =>
        /\ pout[1].ok <=>
                /\ Len(pin[1].s) = TOKEN_LENGTH
                /\ \A i \in 1..Len(pin[1].s) : pin[1].s[i] \in AsciiAlphanumeric
        /\ pin[1].by = "generate" => pout[1].ok

\* ------------------------------------------------------------------ claims on the subscriber name
\* C28: Name::parse trims its input and checks the trimmed value: it accepts
\* exactly the inputs whose trimmed form has 1 to 256 graphemes and none of
\* the forbidden characters, whatever whitespace surrounds it, and the
\* accepted name is the trimmed one.
C28_ParseChecksTrimmedName ==
    pout # Null =>
        LET trimmed == Trim(pin[1].s)
        IN  /\ pout[1].ok <=>
                    /\ Len(trimmed) \in 1..MAX_SUBSCRIBER_NAME_LENGTH
                    /\ \A i \in 1..Len(trimmed) : trimmed[i] \notin forbidden_characters
            /\ pout[1].ok => pout[1].name = trimmed

\* ------------------------------------------------------------------ claims on login, session and password
\* The step answers request r.
Finishes(r) == aout[r] = Null /\ aout'[r] # Null
\* Request r has been answered with this response.
Answered(r, response) == aout[r] # Null /\ aout[r][1].response = response
\* The step is the successful end of a login.
LoginSucceeds(r) ==
    /\ akind[r] = "login"
    /\ Finishes(r)
    /\ aout'[r][1].response = RedirectToAdminDashboard

StoredPasswordHash == (CHOOSE u \in users : u.user_id = AdminUserId).password_hash
\* The step is the successful end of a change of password.
PasswordChanged(r) ==
    /\ akind[r] = "change_password"
    /\ Finishes(r)
    /\ aout'[r][1].flash = "Your password has been changed"

C31_EmailAfterCommit ==
    \A s \in SubscribeRequests : \A m \in ConfirmationEmails(s) :
        \E t \in subscription_tokens :
            /\ t.subscription_token = m.link.subscription_token
            /\ \E row \in subscriptions : row.id = t.subscriber_id /\ row.email = m.to

\* A request for a new email has inserted the subscriber and its token and
\* sent the confirmation email.
C31_Witness ==
    \E s \in SubscribeRequests :
        /\ sfound[s] = Null
        /\ sout[s] = "Ok"
        /\ \E m \in ConfirmationEmails(s) : m.link.subscription_token = stoken[s][1]
        /\ \E row \in subscriptions : row.id = NewSubscriberId(s)

\* The subscribe request for a new email whose confirmation email met a
\* transport error.
SendFailedForNew(s) ==
    /\ sfound[s] = Null
    /\ spc[s] = "done"
    /\ \E m \in ConfirmationEmails(s) : ~m.ok

\* C32: a subscribe request for a new email whose confirmation email fails
\* returns an error (500), and the subscriber it committed and the token it
\* stored stay in the store; a subscribe request with the same email that
\* arrives afterwards, while the subscriber is pending, finds that subscriber,
\* reads its token, and the confirmation email it sends carries that token.
C32_SendFailureKeepsSubscriber ==
    /\ [](\A s \in SubscribeRequests :
              SendFailedForNew(s) =>
                  /\ SubscribeStatusCode(sout[s]) = 500
                  /\ \E row \in subscriptions :
                         row.id = NewSubscriberId(s) /\ row.email = semail[s]
                  /\ TokenRow(stoken[s][1], NewSubscriberId(s)) \in subscription_tokens
                  /\ \A t \in SubscribeRequests : \A m \in ConfirmationEmails(t) :
                         sfound[t] # Null /\ sfound[t][1].id = NewSubscriberId(s) =>
                             m.link.subscription_token = stoken[s][1])
    /\ [][\A s, t \in SubscribeRequests :
              /\ SendFailedForNew(s)
              /\ spc[t] = "idle" /\ spc'[t] # "idle"
              /\ semail'[t] = semail[s]
              /\ NameParse(sname'[t]).ok
              /\ \E row \in subscriptions :
                     row.id = NewSubscriberId(s) /\ row.status = PendingConfirmation
              => /\ spc'[t] = "get_existing_subscription_token"
                 /\ sfound'[t] # Null
                 /\ sfound'[t][1].id = NewSubscriberId(s)]_vars

\* The confirmation email of the first request failed; the second request,
\* for the same email, found the pending subscriber and its email, with the
\* token of the first, was delivered.
C32_Witness ==
    /\ SendFailedForNew(1)
    /\ sout[1] = "UnexpectedError"
    /\ sfound[2] # Null /\ sfound[2][1].id = NewSubscriberId(1)
    /\ sout[2] = "Ok"
    /\ \E m \in ConfirmationEmails(2) : m.ok /\ m.link.subscription_token = stoken[1][1]

\* ------------------------------------------------------------------ claims on failures of the worker
\* The step in which try_execute_task of worker w, holding a task, returns an
\* error.
ErrorAfterDequeue(w) == wtask[w] # Null /\ wtask'[w] = Null /\ woutcome'[w] = "Err"

\* C33 as stated: an iteration that fails with a database error after it
\* dequeued a task commits nothing, so that the task stays in the queue,
\* unlocked, for a later dequeue; the provider was not invoked for the task in
\* that iteration; and the worker goes on with its loop.
C33_DbErrorBeforeAnySend ==
    [][\A w \in Workers :
          ErrorAfterDequeue(w) =>
              /\ wtask[w][1] \in issue_delivery_queue' \ Locked'
              /\ provider' = provider
              /\ ~wsent[w]
              /\ wpc'[w] = "idle"]_vars

\* C33 amended: the same, but the provider was not invoked in that iteration
\* exactly when the error came before send_email (get_issue); when delete_task
\* or its commit fails, the email of the task has been sent and the task,
\* back in the queue, will be sent again.
C33_DbErrorRollsBack ==
    [][\A w \in Workers :
          ErrorAfterDequeue(w) =>
              /\ wtask[w][1] \in issue_delivery_queue' \ Locked'
              /\ issue_delivery_queue' = issue_delivery_queue
              /\ provider' = provider
              /\ wsent[w] <=>
                     wpc[w] = "delete_task" /\ EmailParse(wtask[w][1].subscriber_email).ok
              /\ wpc[w] = "dequeued" => ~wsent[w]
              /\ wpc'[w] = "idle"]_vars

\* delete_task of an iteration failed after its email was sent, the task is
\* in the queue and a worker holds it again.
C33_Witness ==
    \E w, v \in Workers :
        /\ woutcome[w] = "Err"
        /\ wtask[v] # Null
        /\ BagIn(wtask[v][1], aborted)
        /\ wtask[v][1] \in issue_delivery_queue

\* The step in which worker w, holding a task whose email it has sent, loses
\* its iteration before try_execute_task returned.
CrashAfterSend(w) ==
    /\ wtask[w] # Null /\ wsent[w]
    /\ wtask'[w] = Null /\ woutcome'[w] = "none"

\* C34: a crash of the worker after the send and before the commit of the
\* delete leaves the task in the queue, unlocked, for the next dequeue; and a
\* task leaves the queue only in the step in which the delete_task of the
\* worker that holds it commits.
C34_CrashLeavesTaskQueued ==
    [][/\ \A w \in Workers :
             CrashAfterSend(w) =>
                 /\ wtask[w][1] \in issue_delivery_queue' \ Locked'
                 /\ issue_delivery_queue' = issue_delivery_queue
          /\ \A task \in issue_delivery_queue \ issue_delivery_queue' :
                 \E v \in Workers :
                     /\ wtask[v] = Some(task) /\ wpc[v] = "delete_task"
                     /\ woutcome'[v] = "TaskCompleted"
                     /\ issue_delivery_queue' = issue_delivery_queue \ {task}]_vars

\* A worker crashed after the provider accepted the email of a task; the task
\* was dequeued again and the provider accepted the same email a second time,
\* the delete not yet committed.
C34_Witness ==
    \E w \in Workers :
        /\ wtask[w] # Null /\ wpc[w] = "delete_task"
        /\ wtask[w][1] \in issue_delivery_queue
        /\ BagIn(wtask[w][1], aborted)
        /\ SuccessfulSends(wtask[w][1]) = 2
        /\ \A v \in Workers : woutcome[v] = "none"

\* ------------------------------------------------------------------ claims on the worker loop
\* C35 as stated: the worker loop goes on for ever and, whatever fails for a
\* task (its email does not parse, the provider refuses it, or the database
\* fails every time on it), every other task of the queue is eventually
\* processed and leaves the queue.
C35_FailingTaskNeverBlocks ==
    /\ \A w \in Workers : []<>(wpc[w] = "idle")
    /\ \A task \in QueuedTasks \ {FailingTask} : <>(task \notin issue_delivery_queue)

\* C35 amended: the worker loop goes on for ever; a task other than the one
\* the database fails on is deleted by the iteration that dequeued it, be its
\* email invalid or its send refused; with no task the database fails on, the
\* queue drains; the task the database fails on stays in the queue and is
\* dequeued again and again.
C35_DequeuedTaskCompleted ==
    /\ \A w \in Workers : []<>(wpc[w] = "idle")
    /\ \A w \in Workers : \A task \in QueuedTasks \ {FailingTask} :
           (wtask[w] = Some(task)) ~> (task \notin issue_delivery_queue)
    /\ (FailingTask \notin enqueued) => <>[](issue_delivery_queue = {})
    /\ [](FailingTask \in enqueued => FailingTask \in issue_delivery_queue)

\* The database failed on the issue of the failing task, which is still
\* queued; the task with the invalid email and a task whose send the provider
\* refused have left the queue.
C35_Witness ==
    /\ FailingTask \in issue_delivery_queue
    /\ \E w \in Workers : woutcome[w] = "Err"
    /\ \E t1, t2 \in enqueued \ issue_delivery_queue :
           /\ ~EmailParse(t1.subscriber_email).ok
           /\ FailedSends(t2) = 1 /\ SuccessfulSends(t2) = 0

\* ------------------------------------------------------------------ claims on concurrent try_processing
\* The try_processing of caller c returns.
Returns(c) == cpc[c] = "idle" /\ cpc'[c] # "idle"

\* C36: two open transactions never hold StartProcessing for one (user id,
\* key); a call returns only when no other caller holds its pair; it returns
\* ReturnSavedResponse with the response of the holder that committed, and
\* StartProcessing when no holder committed; and every call returns, the
\* holders ending their transactions.
C36_OneHolderPerPair ==
    /\ [](\A c, d \in Callers :
             (c # d /\ cpc[c] = "StartProcessing" /\ cpc[d] = "StartProcessing")
                 => ~SameRequest(c, d))
    /\ [][\A c \in Callers :
             Returns(c) =>
                 LET committed == {d \in Callers : cpc[d] = "Saved" /\ SameRequest(c, d)} IN
                 /\ ~\E d \in Callers : cpc[d] = "StartProcessing" /\ SameRequest(c, d)
                 /\ committed # {} =>
                        /\ cpc'[c] = "ReturnSavedResponse"
                        /\ \A d \in committed : cout'[c] = cout[d]
                 /\ committed = {} => cpc'[c] = "StartProcessing"]_vars
    /\ \A c \in Callers : <>(cpc[c] # "idle")

\* Three calls for one pair: the first holder rolled back, one of the two
\* waiters was started and committed, and the other was answered with the
\* response of that one.
C36_Witness ==
    \E c, d, e \in Callers :
        /\ SameRequest(c, d) /\ SameRequest(d, e)
        /\ cpc[c] = "Dropped" /\ cpc[d] = "Saved" /\ cpc[e] = "ReturnSavedResponse"
        /\ cout[e] = cout[d] /\ cout[d] # Null
        /\ \A x \in Callers : cpc[x] # "idle"

\* ------------------------------------------------------------------ claims on concurrent requests
\* C37 as stated: of the confirm requests that carry one token, in any
\* interleaving, one and only one ends with Ok.
C37_ExactlyOneConfirms ==
    \A p, q \in ConfirmRequests :
        (p # q /\ qout[p] = "Ok" /\ qout[q] = "Ok") => qtoken[p] # qtoken[q]

\* C37 amended: a confirm request goes on to confirm_subscriber exactly when
\* it read the status pending_confirmation, and then ends with Ok unless its
\* query fails, whatever other requests with the same token did in between;
\* it ends with AlreadyConfirmed only when it read the status after the update
\* of a request that ended with Ok; the subscriber of a request that ended
\* with Ok is confirmed from then on.
C37_ConfirmsThatReadPending ==
    /\ [](\A q \in ConfirmRequests :
             qout[q] = "Ok" => StatusOf(subscriptions, qid[q][1]) = {Confirmed})
    /\ [][\A q \in ConfirmRequests :
             /\ (qpc[q] = "get_subscriber_status" /\ qpc'[q] = "confirm_subscriber") =>
                    StatusOf(subscriptions, qid[q][1]) = {PendingConfirmation}
             /\ (qpc[q] = "get_subscriber_status" /\ qout'[q] = "AlreadyConfirmed") =>
                    /\ StatusOf(subscriptions, qid[q][1]) = {Confirmed}
                    /\ \E p \in ConfirmRequests \ {q} : qout[p] = "Ok" /\ qid[p] = qid[q]
             /\ (qpc[q] = "confirm_subscriber" /\ qpc'[q] = "done") =>
                    /\ qout'[q] \in {"Ok", "UnexpectedError"}
                    /\ qout'[q] = "UnexpectedError" => faults' = faults + 1]_vars

\* Two confirm requests with the same token were in progress together: one
\* ended with Ok, and the other, which had arrived before that, read the
\* status after the update and ended with AlreadyConfirmed.
C37_Witness ==
    \E p, q \in ConfirmRequests :
        /\ p # q /\ qtoken[p] = qtoken[q]
        /\ qout[p] = "Ok" /\ qout[q] = "AlreadyConfirmed"
        /\ p \notin qprior[q] /\ q \notin qprior[p]

Populated(row) ==
    /\ row.response_status_code # Null
    /\ row.response_headers # Null
    /\ row.response_body # Null

\* C39: every committed idempotency row has its status code, headers and body
\* set; a row with NULL response columns belongs to the open transaction of
\* the caller that inserted it and was told StartProcessing; so the lookup for
\* a pair with a committed row finds a response, and no call of try_processing
\* ends with an error.
C39_CommittedRowsPopulated ==
    /\ \A row \in idempotency :
           /\ row.committed => Populated(row)
           /\ ~Populated(row) =>
                  \E c \in Callers :
                      /\ cpc[c] = "StartProcessing"
                      /\ row.xmin = CallerXid(c)
                      /\ IdempotencyPrimaryKey(row) = <<cuser[c], ckey[c]>>
    /\ \A p \in Users \X Keys :
           (\E row \in idempotency : row.committed /\ IdempotencyPrimaryKey(row) = p) =>
               \A saved \in GetSavedResponse(idempotency, p[2], p[1]) : saved.kind = "some"
    /\ \A c \in Callers : cpc[c] # "Err"

\* A committed row with its response, replayed to a second caller, while a
\* third caller holds the row of another pair, its response columns NULL, in
\* an open transaction.
C39_Witness ==
    \E c, d, e \in Callers :
        /\ cpc[c] = "Saved" /\ cpc[d] = "ReturnSavedResponse" /\ SameRequest(c, d)
        /\ cpc[e] = "StartProcessing" /\ ~SameRequest(c, e)
        /\ \E row \in idempotency :
               row.committed /\ Populated(row) /\ IdempotencyPrimaryKey(row) = <<cuser[c], ckey[c]>>
        /\ \E row \in idempotency :
               ~row.committed /\ ~Populated(row) /\ row.xmin = CallerXid(e)

=============================================================================
